---- MODULE Spec2Model ----
(***************************************************************************)
(* A model of gripmock (ringerc/gripmock): the orchestrator's control flow *)
(* (main, generateProtoc, buildServer, runGrpcServer) and the protocol     *)
(* path resolver (findProtoInImports).                                     *)
(*                                                                         *)
(* Spec      the orchestrator, from its command line to its exit, with the *)
(*           child server process, the waiter goroutine and the signals    *)
(*           as concurrent processes.                                      *)
(* FairSpec  Spec with the fairness the Go scheduler and the kernel give.  *)
(* ResolveSpec  findProtoInImports applied to bounded file systems, search *)
(*           paths and references.                                         *)
(***************************************************************************)
EXTENDS Integers, Sequences, FiniteSets, TLC

VARIABLES
    \* ---- orchestrator: command line
    argv0,        \* os.Args[1:] as the process was started (never changes)
    osArgs,       \* os.Args (element 1 is the program name, Go's os.Args[0])
    output,       \* *outputPointer after flag.Parse
    protoPaths,   \* flag.Args()
    \* ---- orchestrator: control
    mainPc,       \* position of main
    exitKind,     \* "none" | "exit" (os.Exit) | "panic" (Go runtime panic)
    exitCode,     \* process exit status once exitKind # "none"
    fixIdx,       \* loop index of fixGoPackages (1-based)
    stagesRun,    \* the stages begun so far, in order
    failedStage,  \* the stage that failed, or "none"
    stubStarted,  \* stub.RunStubServer was called
    \* ---- child server process and its waiter goroutine
    childState,   \* "none" | "running" | "exited"
    childStatus,  \* exit status of the child (KilledStatus if it died of a signal)
    killPending,  \* a SIGKILL was sent to the running child and not yet delivered
    killCount,    \* calls of run.Process.Kill()
    waiterPc,     \* "none" | "wait" (in run.Wait) | "send" (blocked in runerr <-) | "done"
    waitErr,      \* the value run.Wait() returned: "none" | "nil" | "ExitError"
    \* ---- control loop
    sigReceived,  \* signals read from sigchan
    sigDropped,   \* signals that arrived while main was not receiving on sigchan
    runerrRecv,   \* values read from runerrchan
    lastErr,      \* the last value read from runerrchan
    \* ---- path resolver
    files,        \* the regular files of the file system (absolute segment sequences)
    importPaths,  \* findProtoInImports' importPaths argument
    protoPath,    \* findProtoInImports' protoPath argument
    result,       \* what findProtoInImports returned
    resPc,        \* "idle" | "call" | "done"
    \* ---- go_package rewriter
    rwIn,         \* the bytes of fixGoPackageProtoStream's input, as a token stream
    rwPkg,        \* its newPackage argument
    rwRes,        \* what it returned and what it wrote
    rwPc,         \* "idle" | "call" | "done"
    \* ---- fixGoPackages
    fxProtos,     \* param.protoPath as passed in
    fxIdx,        \* loop index (1-based)
    fxTree,       \* the files written so far, one record per destination path
    fxInProtos,   \* the resolved input path (protoPath) of each iteration so far
    fxOutProtos,  \* outProtos
    fxErr,        \* the error returned, "none" while running, "nil" on success
    fxPc,         \* "idle" | "loop" | "done"
    \* ---- protoc-gen-gripmock: getGoPackage
    aliases,      \* var aliases: the aliases in use
    aliasNum,     \* var aliasNum: the next numeric suffix
    packages,     \* var packages: go package -> alias
    pkgLog,       \* the calls of getGoPackage so far: argument and result
    \* ---- protoc-gen-gripmock: extractServices
    svcProtos,    \* the file descriptors of the request
    svcTmp,       \* the services extractServices returned
    svcPc,        \* "idle" | "call" | "done"
    \* ---- protoc-gen-gripmock: getMessageType
    msgTipe,      \* the type reference of the last call
    msgRes,       \* what the last call returned
    msgCount,     \* calls so far
    \* ---- protoc-gen-gripmock: main, the plugin parameter
    parameter,    \* request.GetParameter()
    params,       \* the map built from it
    paramPc,      \* "idle" | "parse" | "done" | "panic"
    \* ---- protoc-gen-gripmock: readTemplate, generateFile, generateServer
    generateOptions, \* the Options handed to generateServer
    tplFiles,     \* the template directory: file name -> what the file holds
    tplName,      \* the template name of the last readTemplate call
    tplRes,       \* what that call returned
    genParams,    \* templateParams: <<>> or <<generatorParam>>
    genFiles,     \* the files handed to the FileWriter, in order
    genErr,       \* the error generateServer returned
    genPc         \* "idle" | "call" | "done" | "fatal"

orchVars == <<argv0, osArgs, output, protoPaths, mainPc, exitKind, exitCode, fixIdx,
              stagesRun, failedStage, stubStarted, childState, childStatus,
              killPending, killCount, waiterPc, waitErr, sigReceived, sigDropped,
              runerrRecv, lastErr>>
resVars == <<files, importPaths, protoPath, result, resPc>>
rewVars == <<rwIn, rwPkg, rwRes, rwPc>>
fixVars == <<fxProtos, fxIdx, fxTree, fxInProtos, fxOutProtos, fxErr, fxPc>>
aliasVars == <<aliases, aliasNum, packages, pkgLog>>
msgVars == <<msgTipe, msgRes, msgCount>>
paramVars == <<parameter, params, paramPc>>
tplVars == <<generateOptions, tplFiles, tplName, tplRes, genParams, genFiles, genErr, genPc>>
genVars == <<msgVars, paramVars, tplVars>>
svcVars == <<svcProtos, svcTmp, svcPc, genVars>>
toolVars == <<resVars, rewVars, fixVars, aliasVars, svcVars>>
vars == <<orchVars, toolVars>>

\* ---------------------------------------------------------------- bounds
MaxArgs == 3       \* command-line arguments after the program name
MaxSignals == 2    \* termination signals delivered to the orchestrator
MaxImports == 2    \* entries of a search path

\* ---------------------------------------------------------------- constants
EXITCODE_OK == 0
EXITCODE_OTHER_ERROR == 1
EXITCODE_BUILD_ERROR == 2
EXITCODE_RUNTIME_ERROR == 3
EXITCODE_ARGUMENTS_ERROR == 4
\* exit status of a Go program that dies of an unrecovered panic
GoPanicExitStatus == 2
\* (*ProcessState).ExitCode() of a process that died of a signal
KilledStatus == -1

\* ================================================================ command line
\* The arguments the model draws a command line from: the legacy program name,
\* the -o flag with an empty and a non-empty value, and two protocol references.
ArgTokens == {"gripmock", "-o=", "-o=out", "a.proto", "b.proto"}
FlagTokens == {"-o=", "-o=out"}

RECURSIVE SeqsUpTo(_, _)
SeqsUpTo(S, n) ==
    IF n = 0 THEN {<<>>}
    ELSE LET shorter == SeqsUpTo(S, n - 1)
         IN shorter \cup {Append(s, x) : s \in {t \in shorter : Len(t) = n - 1}, x \in S}

\* flag.String("o", "generated", ...)
DefaultOutput == "generated"

\* The value a -o=<value> argument carries.
FlagValue(tok) == IF tok = "-o=" THEN "" ELSE "out"

\* flag.Parse: flags are read up to the first argument that is not a flag; the
\* arguments from there on are flag.Args().
RECURSIVE flagParse(_, _)
flagParse(args, out) ==
    IF args = <<>> THEN [output |-> out, args |-> <<>>]
    ELSE IF Head(args) \in FlagTokens THEN flagParse(Tail(args), FlagValue(Head(args)))
    ELSE [output |-> out, args |-> args]

\* ================================================================ main
Goto(pc) == mainPc' = pc /\ UNCHANGED <<exitKind, exitCode>>
Exit(code) == mainPc' = "exited" /\ exitKind' = "exit" /\ exitCode' = code
Panic == mainPc' = "exited" /\ exitKind' = "panic" /\ exitCode' = GoPanicExitStatus

argsVars == <<argv0, osArgs, output, protoPaths>>
histVars == <<stagesRun, failedStage>>
childVars == <<childState, childStatus, killPending, killCount>>
waitVars == <<waiterPc, waitErr>>
loopVars == <<sigReceived, sigDropped, runerrRecv, lastErr>>

\* if os.Args[1] == "gripmock" { os.Args = append(os.Args[:1], os.Args[2:]...) }
\* Go's os.Args[1] is osArgs[2] here; indexing past the end of the slice panics.
LegacyArgs ==
    /\ mainPc = "start"
    /\ IF Len(osArgs) < 2
       THEN Panic /\ UNCHANGED osArgs
       ELSE /\ Goto("flagParse")
            /\ osArgs' = IF osArgs[2] = "gripmock"
                         THEN <<osArgs[1]>> \o SubSeq(osArgs, 3, Len(osArgs))
                         ELSE osArgs
    /\ UNCHANGED <<argv0, output, protoPaths, fixIdx, histVars, stubStarted,
                   childVars, waitVars, loopVars, toolVars>>

\* flag.Parse(); output := *outputPointer; protoPaths := flag.Args()
FlagParse ==
    /\ mainPc = "flagParse"
    /\ LET p == flagParse(Tail(osArgs), DefaultOutput)
       IN /\ output' = p.output
          /\ protoPaths' = p.args
    /\ Goto("checkOutput")
    /\ UNCHANGED <<argv0, osArgs, fixIdx, histVars, stubStarted,
                   childVars, waitVars, loopVars, toolVars>>

\* The output directory: empty is an argument error; a missing directory is
\* created, and failing to create it is an "other" error.
CheckOutput ==
    /\ mainPc = "checkOutput"
    /\ IF output = ""
       THEN Exit(EXITCODE_ARGUMENTS_ERROR)
       ELSE \E exists \in BOOLEAN, mkdirOk \in BOOLEAN :
               IF exists \/ mkdirOk THEN Goto("runStub") ELSE Exit(EXITCODE_OTHER_ERROR)
    /\ UNCHANGED <<argsVars, fixIdx, histVars, stubStarted,
                   childVars, waitVars, loopVars, toolVars>>

\* stub.RunStubServer(...)
RunStubServer ==
    /\ mainPc = "runStub"
    /\ stubStarted' = TRUE
    /\ Goto("checkProtos")
    /\ UNCHANGED <<argsVars, fixIdx, histVars, childVars, waitVars, loopVars, toolVars>>

\* if len(protoPaths) == 0 { os.Exit(EXITCODE_ARGUMENTS_ERROR) }
CheckProtos ==
    /\ mainPc = "checkProtos"
    /\ IF Len(protoPaths) = 0
       THEN Exit(EXITCODE_ARGUMENTS_ERROR) /\ UNCHANGED fixIdx
       ELSE Goto("fixGoPackages") /\ fixIdx' = 1
    /\ UNCHANGED <<argsVars, histVars, stubStarted, childVars, waitVars, loopVars, toolVars>>

\* A stage that runs an external step: it is recorded as begun, and it either
\* succeeds (main goes on to `next`) or fails (main exits with `code`).
RunStage(stage, next, code) ==
    /\ stagesRun' = Append(stagesRun, stage)
    /\ \E ok \in BOOLEAN :
          IF ok THEN Goto(next) /\ UNCHANGED failedStage
          ELSE Exit(code) /\ failedStage' = stage

\* One iteration of fixGoPackages' loop, called from generateProtoc: resolve
\* the reference (findProtoInImports), create the output directory, write the
\* rewritten copy (fixGoPackage). Any error is returned up to main, which
\* exits with EXITCODE_BUILD_ERROR.
FixGoPackagesStep ==
    /\ mainPc = "fixGoPackages"
    /\ fixIdx <= Len(protoPaths)
    /\ RunStage("resolveRewrite",
                IF fixIdx = Len(protoPaths) THEN "protoc" ELSE "fixGoPackages",
                EXITCODE_BUILD_ERROR)
    /\ fixIdx' = fixIdx + 1
    /\ UNCHANGED <<argsVars, stubStarted, childVars, waitVars, loopVars, toolVars>>

\* generateProtoc: protoc.Run()
RunProtoc ==
    /\ mainPc = "protoc"
    /\ RunStage("protoc", "buildChdir", EXITCODE_BUILD_ERROR)
    /\ UNCHANGED <<argsVars, fixIdx, stubStarted, childVars, waitVars, loopVars, toolVars>>

\* A step of buildServer that is not one of the build commands: os.Getwd and
\* os.Chdir. Its failure is returned to main like any other.
BuildAux(next) ==
    \E ok \in BOOLEAN :
        IF ok THEN Goto(next) /\ UNCHANGED histVars
        ELSE Exit(EXITCODE_BUILD_ERROR) /\ failedStage' = "chdir" /\ UNCHANGED stagesRun

\* buildServer: os.Getwd(); os.Chdir(output)
BuildChdir ==
    /\ mainPc = "buildChdir"
    /\ BuildAux("goModEdit")
    /\ UNCHANGED <<argsVars, fixIdx, stubStarted, childVars, waitVars, loopVars, toolVars>>

\* buildServer: go mod edit -module GENERATED_MODULE_NAME
GoModEdit ==
    /\ mainPc = "goModEdit"
    /\ RunStage("goModEdit", "goModTidy", EXITCODE_BUILD_ERROR)
    /\ UNCHANGED <<argsVars, fixIdx, stubStarted, childVars, waitVars, loopVars, toolVars>>

\* buildServer: go mod tidy
GoModTidy_errorIgnored ==
    /\ mainPc = "goModTidy"
    /\ stagesRun' = Append(stagesRun, "goModTidy")
    /\ \E ok \in BOOLEAN : failedStage' = IF ok THEN failedStage ELSE "goModTidy"
    /\ Goto("goBuild")
    /\ UNCHANGED <<argsVars, fixIdx, stubStarted, childVars, waitVars, loopVars, toolVars>>

GoModTidy ==
    /\ mainPc = "goModTidy"
    /\ RunStage("goModTidy", "goBuild", EXITCODE_BUILD_ERROR)
    /\ UNCHANGED <<argsVars, fixIdx, stubStarted, childVars, waitVars, loopVars, toolVars>>

\* buildServer: go build -o server ./cmd/...
GoBuild ==
    /\ mainPc = "goBuild"
    /\ RunStage("goBuild", "buildChdirBack", EXITCODE_BUILD_ERROR)
    /\ UNCHANGED <<argsVars, fixIdx, stubStarted, childVars, waitVars, loopVars, toolVars>>

\* buildServer: os.Chdir(oldCwd)
BuildChdirBack ==
    /\ mainPc = "buildChdirBack"
    /\ BuildAux("runGrpcServer")
    /\ UNCHANGED <<argsVars, fixIdx, stubStarted, childVars, waitVars, loopVars, toolVars>>

\* runGrpcServer: run.Start(); on success the waiter goroutine is started and
\* main enters its control loop; on failure main exits with
\* EXITCODE_RUNTIME_ERROR.
RunGrpcServer ==
    /\ mainPc = "runGrpcServer"
    /\ stagesRun' = Append(stagesRun, "start")
    /\ \E ok \in BOOLEAN :
          IF ok
          THEN /\ Goto("select")
               /\ childState' = "running"
               /\ waiterPc' = "wait"
               /\ UNCHANGED failedStage
          ELSE /\ Exit(EXITCODE_RUNTIME_ERROR)
               /\ failedStage' = "start"
               /\ UNCHANGED <<childState, waiterPc>>
    /\ UNCHANGED <<argsVars, fixIdx, stubStarted, childStatus, killPending, killCount,
                   waitErr, loopVars, toolVars>>

\* ================================================================ child, waiter
\* The statuses the child server may exit with on its own.
OwnExitStatuses == {0, 1}

\* The child exits on its own.
ChildExits ==
    /\ childState = "running"
    /\ \E st \in OwnExitStatuses : childStatus' = st
    /\ childState' = "exited"
    /\ killPending' = FALSE
    /\ UNCHANGED <<argsVars, mainPc, exitKind, exitCode, fixIdx, histVars, stubStarted,
                   killCount, waitVars, loopVars, toolVars>>

\* The SIGKILL that run.Process.Kill() sent ends the child.
ChildKilled ==
    /\ childState = "running"
    /\ killPending
    /\ childState' = "exited"
    /\ childStatus' = KilledStatus
    /\ killPending' = FALSE
    /\ UNCHANGED <<argsVars, mainPc, exitKind, exitCode, fixIdx, histVars, stubStarted,
                   killCount, waitVars, loopVars, toolVars>>

\* (*exec.Cmd).Wait: nil when the child exited with status 0, an *exec.ExitError
\* when it exited with another status or died of a signal.
CmdWait_nilUnlessOwnFailure(status) == IF status \in OwnExitStatuses \ {0} THEN "ExitError" ELSE "nil"

CmdWait(status) == IF status = 0 THEN "nil" ELSE "ExitError"

\* (*ProcessState).Success(), as called through the *exec.ExitError
ExitSuccess(status) == status = 0

\* The waiter goroutine: run.Wait() returns once the child has exited; the
\* goroutine then blocks sending the result on the unbuffered runerr channel.
WaitReturns ==
    /\ waiterPc = "wait"
    /\ childState = "exited"
    /\ waitErr' = CmdWait(childStatus)
    /\ waiterPc' = "send"
    /\ UNCHANGED <<argsVars, mainPc, exitKind, exitCode, fixIdx, histVars, stubStarted,
                   childVars, loopVars, toolVars>>

\* ================================================================ control loop
\* case err := <-runerrchan: the rendezvous with the waiter's send, and the type
\* switch on the value received. An *exec.ExitError exits with 0 if e.Success()
\* and with EXITCODE_RUNTIME_ERROR otherwise; any other value (nil included)
\* is logged and the loop goes round again.
RecvRunErr_otherError ==
    /\ mainPc = "select"
    /\ waiterPc = "send"
    /\ waiterPc' = "done"
    /\ runerrRecv' = runerrRecv + 1
    /\ lastErr' = waitErr
    /\ IF waitErr = "ExitError"
       THEN IF ExitSuccess(childStatus)
            THEN Exit(EXITCODE_OK)
            ELSE Exit(EXITCODE_OTHER_ERROR)
       ELSE Goto("select")
    /\ UNCHANGED <<argsVars, fixIdx, histVars, stubStarted, childVars, waitErr,
                   sigReceived, sigDropped, toolVars>>

RecvRunErr_senderStaysReady ==
    /\ mainPc = "select"
    /\ waiterPc = "send"
    /\ waiterPc' = "send"
    /\ runerrRecv' = runerrRecv + 1
    /\ lastErr' = waitErr
    /\ IF waitErr = "ExitError"
       THEN IF ExitSuccess(childStatus)
            THEN Exit(EXITCODE_OK)
            ELSE Exit(EXITCODE_RUNTIME_ERROR)
       ELSE Goto("select")
    /\ runerrRecv < 2
    /\ UNCHANGED <<argsVars, fixIdx, histVars, stubStarted, childVars, waitErr,
                   sigReceived, sigDropped, toolVars>>

RecvRunErr ==
    /\ mainPc = "select"
    /\ waiterPc = "send"
    /\ waiterPc' = "done"
    /\ runerrRecv' = runerrRecv + 1
    /\ lastErr' = waitErr
    /\ IF waitErr = "ExitError"
       THEN IF ExitSuccess(childStatus)
            THEN Exit(EXITCODE_OK)
            ELSE Exit(EXITCODE_RUNTIME_ERROR)
       ELSE Goto("select")
    /\ UNCHANGED <<argsVars, fixIdx, histVars, stubStarted, childVars, waitErr,
                   sigReceived, sigDropped, toolVars>>

\* case <-sigchan: a SIGTERM or SIGINT is read from the signal channel.
RecvSignal ==
    /\ mainPc = "select"
    /\ sigReceived + sigDropped < MaxSignals
    /\ sigReceived' = sigReceived + 1
    /\ Goto("kill")
    /\ UNCHANGED <<argsVars, fixIdx, histVars, stubStarted, childVars, waitVars,
                   sigDropped, runerrRecv, lastErr, toolVars>>

\* A signal that arrives while main is not blocked in the select: sigchan is
\* unbuffered and signal.Notify does not block, so the signal is dropped.
DropSignal ==
    /\ mainPc = "kill"
    /\ sigReceived + sigDropped < MaxSignals
    /\ sigDropped' = sigDropped + 1
    /\ UNCHANGED <<argsVars, mainPc, exitKind, exitCode, fixIdx, histVars, stubStarted,
                   childVars, waitVars, sigReceived, runerrRecv, lastErr, toolVars>>

\* run.Process.Kill(), then back to the select ("Now wait for child exit").
\* Killing a child that has already exited returns an error, which is ignored.
KillChild_exits ==
    /\ mainPc = "kill"
    /\ killCount' = killCount + 1
    /\ killPending' = (childState = "running")
    /\ Exit(EXITCODE_OK)
    /\ UNCHANGED <<argsVars, fixIdx, histVars, stubStarted, childState, childStatus,
                   waitVars, loopVars, toolVars>>

KillChild ==
    /\ mainPc = "kill"
    /\ killCount' = killCount + 1
    /\ killPending' = (childState = "running")
    /\ Goto("select")
    /\ UNCHANGED <<argsVars, fixIdx, histVars, stubStarted, childState, childStatus,
                   waitVars, loopVars, toolVars>>

\* ================================================================ specification
OrchInit ==
    /\ argv0 \in SeqsUpTo(ArgTokens, MaxArgs)
    /\ osArgs = <<"gripmock">> \o argv0
    /\ output = DefaultOutput
    /\ protoPaths = <<>>
    /\ mainPc = "start"
    /\ exitKind = "none"
    /\ exitCode = 0
    /\ fixIdx = 0
    /\ stagesRun = <<>>
    /\ failedStage = "none"
    /\ stubStarted = FALSE
    /\ childState = "none"
    /\ childStatus = 0
    /\ killPending = FALSE
    /\ killCount = 0
    /\ waiterPc = "none"
    /\ waitErr = "none"
    /\ sigReceived = 0
    /\ sigDropped = 0
    /\ runerrRecv = 0
    /\ lastErr = "none"

ResIdle ==
    /\ files = {}
    /\ importPaths = <<>>
    /\ protoPath = [abs |-> FALSE, segs |-> <<>>]
    /\ result = [err |-> "none"]
    /\ resPc = "idle"

RewIdle ==
    /\ rwIn = <<>>
    /\ rwPkg = ""
    /\ rwRes = [err |-> "none"]
    /\ rwPc = "idle"

FixIdle ==
    /\ fxProtos = <<>>
    /\ fxIdx = 0
    /\ fxTree = {}
    /\ fxInProtos = <<>>
    /\ fxOutProtos = <<>>
    /\ fxErr = "none"
    /\ fxPc = "idle"

\* var aliases = map[string]bool{}; var aliasNum = 1; var packages = map[string]string{}
AliasInit ==
    /\ aliases = {}
    /\ aliasNum = 1
    /\ packages = [p \in {} |-> ""]
    /\ pkgLog = <<>>

MsgIdle ==
    /\ msgTipe = <<>>
    /\ msgRes = ""
    /\ msgCount = 0

NoError == [kind |-> "", text |-> <<>>]

ParamIdle ==
    /\ parameter = <<>>
    /\ params = <<>>
    /\ paramPc = "idle"

TplIdle ==
    /\ generateOptions = <<>>
    /\ tplFiles = <<>>
    /\ tplName = ""
    /\ tplRes = <<>>
    /\ genParams = <<>>
    /\ genFiles = <<>>
    /\ genErr = NoError
    /\ genPc = "idle"

GenIdle == MsgIdle /\ ParamIdle /\ TplIdle

SvcIdle ==
    /\ svcProtos = <<>>
    /\ svcTmp = <<>>
    /\ svcPc = "idle"
    /\ GenIdle

Init == OrchInit /\ ResIdle /\ RewIdle /\ FixIdle /\ AliasInit /\ SvcIdle

Next ==
    \/ LegacyArgs
    \/ FlagParse
    \/ CheckOutput
    \/ RunStubServer
    \/ CheckProtos
    \/ FixGoPackagesStep
    \/ RunProtoc
    \/ BuildChdir
    \/ GoModEdit
    \/ GoModTidy
    \/ GoBuild
    \/ BuildChdirBack
    \/ RunGrpcServer
    \/ ChildExits
    \/ ChildKilled
    \/ WaitReturns
    \/ RecvRunErr
    \/ RecvSignal
    \/ DropSignal
    \/ KillChild

Spec == Init /\ [][Next]_vars

\* The fairness the runtime gives: a goroutine that can run does run (the waiter's
\* Wait returning, main's receive and main's Kill), and the kernel delivers
\* the SIGKILL to a running child. Whether the child exits on its own and
\* whether a signal arrives are left to the environment.
FairSpec ==
    /\ Spec
    /\ WF_vars(WaitReturns)
    /\ WF_vars(RecvRunErr)
    /\ WF_vars(KillChild)
    /\ WF_vars(ChildKilled)

\* ================================================================ paths
\* A path string is modelled by its leading slash and its slash-separated
\* segments: "" is EmptyPath, "/" is RootPath, "." is DotPath, "../d/f" is
\* [abs |-> FALSE, segs |-> <<"..", "d", "f">>].
P(abs, segs) == [abs |-> abs, segs |-> segs]
EmptyPath == P(FALSE, <<>>)
RootPath == P(TRUE, <<>>)
DotPath == P(FALSE, <<".">>)

\* filepath.Clean / path.Clean: "." segments are dropped, "x/.." pairs are
\* eliminated, ".." directly under the root is dropped, and the empty result
\* of a relative path is ".".
RECURSIVE CleanSegs(_, _, _)
CleanSegs(abs, out, rest) ==
    IF rest = <<>> THEN out
    ELSE LET h == Head(rest)
             t == Tail(rest)
         IN IF h = "." THEN CleanSegs(abs, out, t)
            ELSE IF h = ".."
                 THEN IF out # <<>> /\ out[Len(out)] # ".."
                      THEN CleanSegs(abs, SubSeq(out, 1, Len(out) - 1), t)
                      ELSE IF abs THEN CleanSegs(abs, out, t)
                      ELSE CleanSegs(abs, Append(out, ".."), t)
                 ELSE CleanSegs(abs, Append(out, h), t)

Clean(p) ==
    LET s == CleanSegs(p.abs, <<>>, p.segs)
    IN IF ~p.abs /\ s = <<>> THEN DotPath ELSE P(p.abs, s)

RECURSIVE ConcatSegs(_)
ConcatSegs(elems) ==
    IF elems = <<>> THEN <<>> ELSE Head(elems).segs \o ConcatSegs(Tail(elems))

\* path.Join: leading empty elements are ignored, the rest are joined with
\* slashes and the result is cleaned; all elements empty gives "".
RECURSIVE Join(_)
Join(elems) ==
    IF elems = <<>> THEN EmptyPath
    ELSE IF Head(elems) = EmptyPath THEN Join(Tail(elems))
    ELSE Clean(P(Head(elems).abs, ConcatSegs(elems)))

\* path.Dir: the path without its last element, cleaned.
Dir(p) ==
    IF p.segs = <<>> THEN (IF p.abs THEN RootPath ELSE DotPath)
    ELSE Clean(P(p.abs, SubSeq(p.segs, 1, Len(p.segs) - 1)))

\* path.Base: the last element; "." for the empty path, "/" for the root.
Base(p) ==
    IF p.segs = <<>> THEN (IF p.abs THEN RootPath ELSE DotPath)
    ELSE P(FALSE, <<p.segs[Len(p.segs)]>>)

\* The working directory of the process (os.Getwd).
Cwd == P(TRUE, <<"w">>)

\* filepath.IsAbs
IsAbs(p) == p.abs

\* filepath.Abs: a relative path is joined to the working directory.
Abs(p) == IF IsAbs(p) THEN Clean(p) ELSE Join(<<Cwd, p>>)

\* Length of the longest common prefix of two segment sequences.
RECURSIVE CommonLen(_, _)
CommonLen(a, b) ==
    IF a = <<>> \/ b = <<>> \/ Head(a) # Head(b) THEN 0
    ELSE 1 + CommonLen(Tail(a), Tail(b))

\* filepath.Rel of two absolute paths: "." when they are equal, else one ".."
\* per element of base below the common prefix, then the rest of targ.
Rel(basepath, targpath) ==
    LET base == Clean(basepath)
        targ == Clean(targpath)
        n == CommonLen(base.segs, targ.segs)
    IN IF base = targ THEN DotPath
       ELSE P(FALSE, [i \in 1..(Len(base.segs) - n) |-> ".."]
                        \o SubSeq(targ.segs, n + 1, Len(targ.segs)))

\* strings.HasPrefix(relPath, "../")
HasDotDotSlashPrefix(p) == Len(p.segs) >= 2 /\ p.segs[1] = ".."

\* ================================================================ file system
IsProperPrefix(a, b) == Len(a) < Len(b) /\ SubSeq(b, 1, Len(a)) = a

\* The directories: the ancestors of the regular files, and the working
\* directory with its ancestors.
IsDirectory(a) ==
    \/ a = Cwd.segs
    \/ IsProperPrefix(a, Cwd.segs)
    \/ \E f \in files : IsProperPrefix(a, f)

\* os.Stat: what the call finds at a path (relative paths are resolved against
\* the working directory): a regular file, a directory, or the error ENOENT
\* (nothing of that name) or ENOTDIR (a component of the path is a regular file).
StatKind(p) ==
    IF p = EmptyPath THEN "ENOENT"
    ELSE LET a == Abs(p).segs
         IN IF a \in files THEN "file"
            ELSE IF IsDirectory(a) THEN "dir"
            ELSE IF \E f \in files : IsProperPrefix(f, a) THEN "ENOTDIR"
            ELSE "ENOENT"

\* err == nil for the error os.Stat returns
StatOk(p) == StatKind(p) \in {"file", "dir"}
\* os.IsNotExist(err): true of ENOENT only
IsNotExist(p) == StatKind(p) = "ENOENT"

\* ================================================================ findProtoInImports
NoMatch == [imp |-> EmptyPath, rel |-> EmptyPath]

MatchImport_entryNotCleaned(entry, proto) ==
    LET imp == entry
    IN IF IsAbs(proto)
       THEN LET absImp == Abs(imp)
                relPath == Rel(absImp, proto)
            IN IF relPath # EmptyPath /\ ~HasDotDotSlashPrefix(relPath)
               THEN LET rel == Dir(relPath)
                        derivedPath == Join(<<imp, rel, Base(proto)>>)
                    IN IF ~StatOk(derivedPath) THEN NoMatch
                       ELSE [imp |-> imp, rel |-> rel]
               ELSE NoMatch
       ELSE LET importProtoPath == Join(<<imp, proto>>)
            IN IF ~IsNotExist(importProtoPath)
               THEN [imp |-> imp, rel |-> Dir(proto)]
               ELSE NoMatch

\* The body of the loop over importPaths for one entry: the match it records
\* (matchedImp, matchedRel), or NoMatch when it goes on to the next entry.
\* protoPath is already cleaned.
MatchImport(entry, proto) ==
    LET imp == Clean(entry)
    IN IF IsAbs(proto)
       THEN LET absImp == Abs(imp)
                relPath == Rel(absImp, proto)
            IN IF relPath # EmptyPath /\ ~HasDotDotSlashPrefix(relPath)
               THEN LET rel == Dir(relPath)
                        derivedPath == Join(<<imp, rel, Base(proto)>>)
                    IN IF ~StatOk(derivedPath) THEN NoMatch
                       ELSE [imp |-> imp, rel |-> rel]
               ELSE NoMatch
       ELSE LET importProtoPath == Join(<<imp, proto>>)
            IN IF ~IsNotExist(importProtoPath)
               THEN [imp |-> imp, rel |-> Dir(proto)]
               ELSE NoMatch

\* The loop: the first entry that records a match ends it (break).
RECURSIVE SearchImports(_, _, _)
SearchImports(imps, proto, i) ==
    IF i > Len(imps) THEN NoMatch
    ELSE LET m == MatchImport(imps[i], proto)
         IN IF m # NoMatch THEN m ELSE SearchImports(imps, proto, i + 1)

\* What the call returns: the error ("nil" or the text that identifies the
\* error), the path the error message quotes, the two results, and whether
\* the implicit-import-path warning was logged.
Failure(err, arg, warned) ==
    [err |-> err, arg |-> arg, imp |-> EmptyPath, rel |-> EmptyPath, warned |-> warned]
Success(imp, rel, warned) ==
    [err |-> "nil", arg |-> EmptyPath, imp |-> imp, rel |-> rel, warned |-> warned]

\* The sanity check that ends the function.
FinalCheck_noDirCheck(matchedImp, matchedRel, proto, warned) ==
    LET derivedPath == Join(<<matchedImp, matchedRel, Base(proto)>>)
    IN IF ~StatOk(derivedPath)
       THEN Failure("cannot stat proto file", derivedPath, warned)
       ELSE Success(matchedImp, matchedRel, warned)

FinalCheck(matchedImp, matchedRel, proto, warned) ==
    LET derivedPath == Join(<<matchedImp, matchedRel, Base(proto)>>)
    IN IF ~StatOk(derivedPath)
       THEN Failure("cannot stat proto file", derivedPath, warned)
       ELSE IF StatKind(derivedPath) = "dir"
            THEN Failure("is a directory", derivedPath, warned)
            ELSE Success(matchedImp, matchedRel, warned)

findProtoInImports_noNotFoundReturn(imps, proto0) ==
    IF proto0 = EmptyPath THEN Failure("empty input", EmptyPath, FALSE)
    ELSE LET proto == Clean(proto0)
             m == SearchImports(imps, proto, 1)
         IN IF m.rel = EmptyPath /\ m.imp = EmptyPath
            THEN IF ~IsNotExist(proto)
                 THEN FinalCheck(Dir(proto), DotPath, proto, TRUE)
                 ELSE FinalCheck(m.imp, m.rel, proto, FALSE)
            ELSE FinalCheck(m.imp, m.rel, proto, FALSE)

findProtoInImports(imps, proto0) ==
    IF proto0 = EmptyPath THEN Failure("empty input", EmptyPath, FALSE)
    ELSE LET proto == Clean(proto0)
             m == SearchImports(imps, proto, 1)
         IN IF m.rel = EmptyPath /\ m.imp = EmptyPath
            THEN IF ~IsNotExist(proto)
                 THEN FinalCheck(Dir(proto), DotPath, proto, TRUE)
                 ELSE Failure("could not find proto", proto, FALSE)
            ELSE FinalCheck(m.imp, m.rel, proto, FALSE)

\* ---------------------------------------------------------------- inputs
\* The regular files a file system is drawn from. No file may lie under
\* another file, nor be an ancestor of the working directory.
CandidateFiles ==
    { <<"w", "f">>, <<"w", "d">>, <<"w", "d", "f">>, <<"w", "d", "e", "f">>,
      <<"w", "d", "f", "f">>, <<"w", "e", "f">> }

FileSystems ==
    { fs \in SUBSET CandidateFiles :
         \A a \in fs, b \in fs : ~IsProperPrefix(a, b) }

\* Search-path entries: "", "d", "e", "./d", "x", "/w", "/w/d", "/x"
ImportEntries ==
    { EmptyPath, P(FALSE, <<"d">>), P(FALSE, <<"e">>), P(FALSE, <<".", "d">>),
      P(FALSE, <<"x">>), P(TRUE, <<"w">>), P(TRUE, <<"w", "d">>), P(TRUE, <<"x">>) }

\* References: "", "f", "./f", "d/../f", "d/f", "e/f", "../w/f", "d", "g",
\* "/w/f", "/w/d/f", "/w/d/e/f", "/w/./e/f", "/w/d", "/w/g"
References ==
    { EmptyPath, P(FALSE, <<"f">>), P(FALSE, <<".", "f">>), P(FALSE, <<"d", "..", "f">>),
      P(FALSE, <<"d", "f">>), P(FALSE, <<"e", "f">>), P(FALSE, <<"..", "w", "f">>),
      P(FALSE, <<"d">>), P(FALSE, <<"g">>),
      P(TRUE, <<"w", "f">>), P(TRUE, <<"w", "d", "f">>), P(TRUE, <<"w", "d", "e", "f">>),
      P(TRUE, <<"w", ".", "e", "f">>), P(TRUE, <<"w", "d">>), P(TRUE, <<"w", "g">>) }

\* ================================================================ resolver specification
\* The call of findProtoInImports, as made by fixGoPackages and by the tests.
CallFindProtoInImports ==
    /\ resPc = "call"
    /\ result' = findProtoInImports(importPaths, protoPath)
    /\ resPc' = "done"
    /\ UNCHANGED <<files, importPaths, protoPath, orchVars, rewVars, fixVars, aliasVars,
                   svcVars>>

OrchIdle ==
    /\ argv0 = <<>>
    /\ osArgs = <<"gripmock">>
    /\ output = DefaultOutput
    /\ protoPaths = <<>>
    /\ mainPc = "idle"
    /\ exitKind = "none"
    /\ exitCode = 0
    /\ fixIdx = 0
    /\ stagesRun = <<>>
    /\ failedStage = "none"
    /\ stubStarted = FALSE
    /\ childState = "none"
    /\ childStatus = 0
    /\ killPending = FALSE
    /\ killCount = 0
    /\ waiterPc = "none"
    /\ waitErr = "none"
    /\ sigReceived = 0
    /\ sigDropped = 0
    /\ runerrRecv = 0
    /\ lastErr = "none"

ResolveInit ==
    /\ OrchIdle
    /\ SvcIdle
    /\ RewIdle
    /\ FixIdle
    /\ AliasInit
    /\ files \in FileSystems
    /\ importPaths \in SeqsUpTo(ImportEntries, MaxImports)
    /\ protoPath \in References
    /\ result = [err |-> "none"]
    /\ resPc = "call"

ResolveNext == CallFindProtoInImports

ResolveSpec == ResolveInit /\ [][ResolveNext]_vars

\* ================================================================ claims: orchestrator
Exited == exitKind # "none"

\* C1: once the control loop has received the exit notification of a child that
\* exited on its own with status 0, and no signal has been received, the
\* orchestrator has exited with code 0 (it does not go on waiting).
C1_CleanChildExitMirrored ==
    (runerrRecv > 0 /\ childStatus = 0 /\ sigReceived = 0)
        => (exitKind = "exit" /\ exitCode = EXITCODE_OK)

\* C2: every signal received is followed by a kill of the child, and an
\* orchestrator that has received a signal has exited only if the child has
\* exited, its wait has returned and the control loop has received the exit
\* notification: there is no exit from the signal branch.
C2_ExitOnlyAfterChildWait ==
    /\ (sigReceived > 0 /\ mainPc # "kill") => killCount = sigReceived
    /\ (sigReceived > 0 /\ Exited)
          => /\ childState = "exited"
             /\ waiterPc = "done"
             /\ runerrRecv >= 1
             /\ lastErr = "ExitError"

C2_Witness ==
    /\ exitKind = "exit"
    /\ sigReceived > 0
    /\ childStatus = KilledStatus
    /\ runerrRecv = 1

\* C3: once the orchestrator has received a termination signal, it eventually
\* exits, whatever the interleaving of the child's exit and the signal.
C3_SignalLeadsToExit == (sigReceived > 0) ~> Exited

\* C4: once the control loop has received the exit notification of a child that
\* exited on its own with a non-zero status, the orchestrator has exited with
\* EXITCODE_RUNTIME_ERROR, and the five exit codes are pairwise different.
C4_NonZeroChildExitIsRuntimeError ==
    /\ (runerrRecv > 0 /\ childStatus \in OwnExitStatuses \ {0})
          => (exitKind = "exit" /\ exitCode = EXITCODE_RUNTIME_ERROR)
    /\ Cardinality({EXITCODE_OK, EXITCODE_OTHER_ERROR, EXITCODE_BUILD_ERROR,
                    EXITCODE_RUNTIME_ERROR, EXITCODE_ARGUMENTS_ERROR}) = 5

C4_Witness ==
    /\ exitKind = "exit"
    /\ exitCode = EXITCODE_RUNTIME_ERROR
    /\ childStatus = 1
    /\ sigReceived = 0
    /\ runerrRecv = 1

\* The stages of a run over n requested files, in order.
ExpectedStages(n) ==
    [i \in 1..n |-> "resolveRewrite"]
        \o <<"protoc", "goModEdit", "goModTidy", "goBuild", "start">>
IsPrefix(s, t) == Len(s) <= Len(t) /\ SubSeq(t, 1, Len(s)) = s
BuildStages == {"resolveRewrite", "protoc", "goModEdit", "goModTidy", "goBuild"}

\* C5: the stages begun are always an initial part of: resolve and rewrite each
\* requested file, protoc, go mod edit, go mod tidy, go build, start the child;
\* every stage before the last one begun has succeeded; and when a stage before
\* the start of the child has failed, the orchestrator has exited with
\* EXITCODE_BUILD_ERROR, the failed stage is the last one begun and the child
\* was never started.
C5_StagesInOrder ==
    /\ IsPrefix(stagesRun, ExpectedStages(Len(protoPaths)))
    /\ failedStage # "none"
          => /\ exitKind = "exit"
             /\ failedStage \in BuildStages \cup {"start"}
                   => stagesRun[Len(stagesRun)] = failedStage
    /\ failedStage \in BuildStages \cup {"chdir"}
          => /\ exitCode = EXITCODE_BUILD_ERROR
             /\ childState = "none"
             /\ \A i \in 1..Len(stagesRun) : stagesRun[i] # "start"
    /\ childState # "none"
          => /\ failedStage = "none"
             /\ stagesRun = ExpectedStages(Len(protoPaths))

C5_Witness ==
    /\ failedStage = "goModTidy"
    /\ exitKind = "exit"
    /\ exitCode = EXITCODE_BUILD_ERROR
    /\ Len(stagesRun) = Len(protoPaths) + 3
    /\ Len(protoPaths) = 2

\* The argument vector after the legacy duplicate of the program name is discarded.
EffectiveArgs(a) == IF a # <<>> /\ a[1] = "gripmock" THEN Tail(a) ELSE a

\* C6: an orchestrator started with an argument vector that gives no protocol
\* file reference, or gives the empty output directory, terminates by exiting
\* with EXITCODE_ARGUMENTS_ERROR, having begun no stage and started no child.
C6_ArgumentErrorsExit4 ==
    LET given == flagParse(EffectiveArgs(argv0), DefaultOutput)
    IN (Exited /\ (given.args = <<>> \/ given.output = ""))
          => /\ exitKind = "exit"
             /\ exitCode = EXITCODE_ARGUMENTS_ERROR
             /\ stagesRun = <<>>
             /\ childState = "none"

\* ================================================================ claims: path resolver
Returned == resPc = "done"

\* The reference is present under a search-path entry: a relative reference
\* names a regular file when joined to the entry, an absolute reference names
\* a regular file and lies under the entry made absolute.
PresentUnder(entry, ref) ==
    LET s == Clean(entry)
        r == Clean(ref)
    IN IF IsAbs(r)
       THEN IsProperPrefix(Abs(s).segs, r.segs) /\ StatKind(r) = "file"
       ELSE StatKind(Join(<<s, r>>)) = "file"

\* The directory part of the reference relative to the entry.
SubdirUnder(entry, ref) ==
    LET s == Clean(entry)
        r == Clean(ref)
    IN IF IsAbs(r) THEN Dir(Rel(Abs(s), r)) ELSE Dir(r)

PresentAt == {i \in 1..Len(importPaths) : PresentUnder(importPaths[i], protoPath)}
FirstPresentAt == CHOOSE i \in PresentAt : \A j \in PresentAt : i <= j

\* C7: when the reference is present under at least one entry of the search
\* path, the call succeeds and returns the first such entry (in its cleaned
\* form) and the directory part of the reference relative to that entry,
\* whether entry and reference are absolute or relative, and whatever entries
\* that do not hold the reference come before it.
C7_FirstEntryHoldingReference ==
    (Returned /\ protoPath # EmptyPath /\ PresentAt # {})
        => /\ result.err = "nil"
           /\ result.imp = Clean(importPaths[FirstPresentAt])
           /\ result.rel = SubdirUnder(importPaths[FirstPresentAt], protoPath)

\* C8: when the reference is present under no entry of the search path but
\* names a regular file on disk (as given, or relative to the working
\* directory), the call succeeds with the directory of the reference as the
\* matched root and "." as the relative subpath, and the warning is logged.
C8_ImplicitRootFallback ==
    (Returned /\ protoPath # EmptyPath /\ PresentAt = {}
       /\ StatKind(Clean(protoPath)) = "file")
        => result = Success(Dir(Clean(protoPath)), DotPath, TRUE)

\* What os.Stat reports where nothing of the name exists.
NotThere == {"ENOENT", "ENOTDIR"}

\* The reference exists neither under any search-path entry nor on disk.
ExistsNowhere ==
    /\ StatKind(Clean(protoPath)) \in NotThere
    /\ \A i \in 1..Len(importPaths) :
          \/ IsAbs(protoPath)
          \/ StatKind(Join(<<Clean(importPaths[i]), Clean(protoPath)>>)) \in NotThere

\* Every os.Stat of the reference, under an entry or on disk, reports ENOENT.
NoEntryEverywhere ==
    /\ StatKind(Clean(protoPath)) = "ENOENT"
    /\ \A i \in 1..Len(importPaths) :
          \/ IsAbs(protoPath)
          \/ StatKind(Join(<<Clean(importPaths[i]), Clean(protoPath)>>)) = "ENOENT"

\* The errors that report a missing file.
NotFoundErrors == {"could not find proto", "cannot stat proto file"}

\* The path the message quotes contains the path string r.
Contains(quoted, r) ==
    \E k \in 0..(Len(quoted.segs) - Len(r.segs)) :
        /\ SubSeq(quoted.segs, k + 1, k + Len(r.segs)) = r.segs
        /\ r.abs => (k = 0 /\ quoted.abs)

\* C9 (as stated): an empty reference fails with the empty-input error, and a
\* non-empty reference that exists neither under a search-path entry nor on
\* disk fails with a not-found error whose message contains the reference
\* string exactly as the caller supplied it.
C9_NotFoundNamesSuppliedReference ==
    /\ (Returned /\ protoPath = EmptyPath) => result.err = "empty input"
    /\ (Returned /\ protoPath # EmptyPath /\ ExistsNowhere)
          => /\ result.err \in NotFoundErrors
             /\ Contains(result.arg, protoPath)

\* C9 (amended): an empty reference fails with the empty-input error; a
\* non-empty reference that exists neither under a search-path entry nor on
\* disk fails with a not-found error; that error is the could-not-find error
\* whenever every os.Stat reports plain non-existence, and the could-not-find
\* message quotes the reference in its cleaned form.
C9_NotFoundNamesCleanedReference ==
    /\ (Returned /\ protoPath = EmptyPath) => result.err = "empty input"
    /\ (Returned /\ protoPath # EmptyPath /\ ExistsNowhere)
          => /\ result.err \in NotFoundErrors
             /\ result.err = "could not find proto" => result.arg = Clean(protoPath)
             /\ NoEntryEverywhere => result.err = "could not find proto"

C9_Witness ==
    /\ Returned
    /\ ExistsNowhere
    /\ result.err = "could not find proto"
    /\ Clean(protoPath) # protoPath
    /\ Len(importPaths) = 2

\* The root and subpath the search settles on before the final check: the
\* entry the loop matched, else the implicit root of a reference found on disk.
Settled ==
    LET proto == Clean(protoPath)
        m == SearchImports(importPaths, proto, 1)
    IN IF m # NoMatch THEN m
       ELSE IF ~IsNotExist(proto) THEN [imp |-> Dir(proto), rel |-> DotPath]
       ELSE NoMatch

AscendsOutOf(entry, ref) ==
    LET proto == Clean(ref)
    IN IF IsAbs(proto)
       THEN LET relPath == Rel(Abs(Clean(entry)), proto)
            IN relPath.segs # <<>> /\ relPath.segs[1] = ".."
       ELSE proto.segs[1] = ".."

\* C11: a call that succeeds by matching a search-path entry (no implicit
\* root) never returns an entry the reference ascends out of with "..".
C11_NoMatchThroughDotDotAscent ==
    (Returned /\ result.err = "nil" /\ ~result.warned)
        => ~AscendsOutOf(result.imp, protoPath)

\* ================================================================ fixGoPackageProtoStream
\* File contents are streams of tokens: a keyword, an identifier, a
\* punctuation mark, a blank (" " or "\t"), a carriage return or a newline
\* each stand for the characters they are written with.
MaxLines == 3

NL == "\n"
CR == "\r"
IsBlank(t) == t \in {" ", "\t"}

\* The lines input files are made of:
\*   syntax = "proto3";            syntax="proto3";         syntax this is garbage
\*   option go_package = "some/prev/package";
\*   option<TAB>go_package<TAB>= "some/prev/package";
\*   option go_package="some/prev/package";
\*   package simple;<CR>           (blank line)
LineKinds ==
    { <<"syntax", " ", "=", " ", "\"", "proto3", "\"", ";">>,
      <<"syntax", "=", "\"", "proto3", "\"", ";">>,
      <<"syntax", " ", "this", " ", "is", " ", "garbage">>,
      <<"option", " ", "go_package", " ", "=", " ", "\"", "some/prev/package", "\"", ";">>,
      <<"option", "\t", "go_package", "\t", "=", " ", "\"", "some/prev/package", "\"", ";">>,
      <<"option", " ", "go_package", "=", "\"", "some/prev/package", "\"", ";">>,
      <<"package", " ", "simple", ";", CR>>,
      <<>> }

\* newPackage: "", GENERATED_MODULE_NAME, and the test's dummypkg
GENERATED_MODULE_NAME == "gripmock/generated"
NewPackages == { "", GENERATED_MODULE_NAME, "gripmock/generated/subpkg" }

\* The bytes of a file with the given lines, each followed by a newline,
\* the last one only when the file ends with a newline.
RECURSIVE Unlines(_, _)
Unlines(lines, finalNewline) ==
    IF lines = <<>> THEN <<>>
    ELSE IF Len(lines) = 1 /\ ~finalNewline THEN Head(lines)
    ELSE Head(lines) \o <<NL>> \o Unlines(Tail(lines), finalNewline)

InputStreams ==
    { Unlines(ls, t) : ls \in SeqsUpTo(LineKinds, MaxLines), t \in BOOLEAN }

\* bufio.ScanLines: dropCR strips one trailing carriage return of a line
DropCR(line) ==
    IF line # <<>> /\ line[Len(line)] = CR THEN SubSeq(line, 1, Len(line) - 1)
    ELSE line

\* bufio.Scanner with bufio.ScanLines: the lines of the stream without their
\* end-of-line marker; the text after the last newline is a line when it is
\* not empty.
RECURSIVE ScanLines(_, _)
ScanLines(rest, cur) ==
    IF rest = <<>> THEN (IF cur = <<>> THEN <<>> ELSE <<DropCR(cur)>>)
    ELSE IF Head(rest) = NL
         THEN <<DropCR(cur)>> \o ScanLines(Tail(rest), <<>>)
         ELSE ScanLines(Tail(rest), Append(cur, Head(rest)))

\* The index of the first token at or after i that is not a blank
\* (Len(l) + 1 when there is none).
RECURSIVE SkipBlanks(_, _)
SkipBlanks(l, i) ==
    IF i > Len(l) \/ ~IsBlank(l[i]) THEN i ELSE SkipBlanks(l, i + 1)

\* regexp.MatchString("^option[ \\t]+go_package[ \\t]+=", l)
MatchGoPackage(l) ==
    /\ Len(l) >= 2 /\ l[1] = "option" /\ IsBlank(l[2])
    /\ LET j == SkipBlanks(l, 2)
       IN /\ j + 1 <= Len(l) /\ l[j] = "go_package" /\ IsBlank(l[j + 1])
          /\ LET k == SkipBlanks(l, j + 1)
             IN k <= Len(l) /\ l[k] = "="

\* regexp.MatchString("^syntax[ \\t]", l)
MatchSyntax(l) == Len(l) >= 2 /\ l[1] = "syntax" /\ IsBlank(l[2])

\* fmt.Sprintf("option go_package = \"%s\";", newPackage)
GoPackageLine(newPackage) ==
    <<"option", " ", "go_package", " ", "=", " ", "\"", newPackage, "\"", ";">>

\* The scan loop from line i on, then Flush and the check of foundSyntaxLine.
\* A return from inside the loop leaves the output in the bufio.Writer, which
\* is never flushed: nothing is written (the outputs here are shorter than its
\* buffer).
RECURSIVE RewriteLines(_, _, _, _, _)
RewriteLines(lines, i, foundSyntaxLine, out, newPackage) ==
    IF i > Len(lines)
    THEN IF ~foundSyntaxLine
         THEN [err |-> "no syntax line found", out |-> out]
         ELSE [err |-> "nil", out |-> out]
    ELSE LET l == lines[i]
         IN IF MatchGoPackage(l)
            THEN RewriteLines(lines, i + 1, foundSyntaxLine, out, newPackage)
            ELSE IF MatchSyntax(l)
                 THEN IF foundSyntaxLine
                      THEN [err |-> "more than one syntax", out |-> <<>>]
                      ELSE RewriteLines(lines, i + 1, TRUE,
                               out \o l \o <<NL>> \o GoPackageLine(newPackage)
                                   \o <<NL>> \o <<NL>>,
                               newPackage)
                 ELSE RewriteLines(lines, i + 1, foundSyntaxLine,
                                   out \o l \o <<NL>>, newPackage)

fixGoPackageProtoStream(in, newPackage) ==
    IF newPackage = "" THEN [err |-> "empty package name", out |-> <<>>]
    ELSE RewriteLines(ScanLines(in, <<>>), 1, FALSE, <<>>, newPackage)

\* The call of fixGoPackageProtoStream, as made by fixGoPackage and the tests.
CallFixGoPackageProtoStream ==
    /\ rwPc = "call"
    /\ rwRes' = fixGoPackageProtoStream(rwIn, rwPkg)
    /\ rwPc' = "done"
    /\ UNCHANGED <<rwIn, rwPkg, orchVars, resVars, fixVars, aliasVars, svcVars>>

RewriteInit ==
    /\ OrchIdle
    /\ SvcIdle
    /\ ResIdle
    /\ FixIdle
    /\ AliasInit
    /\ rwIn \in InputStreams
    /\ rwPkg \in NewPackages
    /\ rwRes = [err |-> "none"]
    /\ rwPc = "call"

RewriteNext == CallFixGoPackageProtoStream

RewriteSpec == RewriteInit /\ [][RewriteNext]_vars

\* ================================================================ fixGoPackages
MaxProtos == 2

\* The text of a path: its segments joined with slashes.
RECURSIVE JoinSegs(_)
JoinSegs(segs) ==
    IF segs = <<>> THEN ""
    ELSE IF Len(segs) = 1 THEN segs[1]
    ELSE segs[1] \o "/" \o JoinSegs(Tail(segs))

PathString(p) == IF p.abs THEN "/" \o JoinSegs(p.segs) ELSE JoinSegs(p.segs)

\* GENERATED_MODULE_NAME as a path
GeneratedModulePath == P(FALSE, <<"gripmock", "generated">>)

\* param.output: the default of -o
OutputPath == P(FALSE, <<DefaultOutput>>)

\* What os.Open finds in an input file: a protocol with its own go_package, a
\* protocol without one, and a text without syntax line.
FixContents ==
    { Unlines(<< <<"syntax", " ", "=", " ", "\"", "proto3", "\"", ";">>,
                 <<"option", " ", "go_package", " ", "=", " ", "\"", "some/prev/package", "\"", ";">>,
                 <<"package", " ", "simple", ";">> >>, TRUE),
      Unlines(<< <<"syntax", " ", "=", " ", "\"", "proto3", "\"", ";">> >>, TRUE),
      Unlines(<< <<"package", " ", "simple", ";">> >>, TRUE) }

\* The file systems, -imports lists and references of the runs:
\* -imports is "" (the default), "d", "d,e", "/w/d,e", "x", and "generated",
\* the output directory, which may hold f from an earlier run
FixFileSystems ==
    SUBSET { <<"w", "f">>, <<"w", "d", "f">>, <<"w", "e", "f">>, <<"w", "d", "e", "f">>,
             <<"w", DefaultOutput, "f">> }

FixImportLists ==
    { <<EmptyPath>>, <<P(FALSE, <<"d">>)>>, <<P(FALSE, <<"d">>), P(FALSE, <<"e">>)>>,
      <<P(TRUE, <<"w", "d">>), P(FALSE, <<"e">>)>>, <<P(FALSE, <<"x">>)>>,
      <<OutputPath>> }

\* "f", "d/f", "e/f", "../w/f", "/w/e/f", "/w/d/e/f"
FixReferences ==
    { P(FALSE, <<"f">>), P(FALSE, <<"d", "f">>), P(FALSE, <<"e", "f">>),
      P(FALSE, <<"..", "w", "f">>), P(TRUE, <<"w", "e", "f">>),
      P(TRUE, <<"w", "d", "e", "f">>) }

FixFailed(err) ==
    /\ fxErr' = err
    /\ fxPc' = "done"
    /\ UNCHANGED <<fxIdx, fxInProtos, fxOutProtos>>

\* One iteration of the loop over param.protoPath: resolve the reference,
\* derive the paths and the package, MkdirAll, fixGoPackage (open the input,
\* create or truncate the output, rewrite). After the last reference
\* param.protoPath becomes outProtos and nil is returned.
FixGoPackagesIter ==
    /\ fxPc = "loop"
    /\ fxIdx <= Len(fxProtos)
    /\ \E r \in {findProtoInImports(importPaths, fxProtos[fxIdx])} :
       LET proto == fxProtos[fxIdx]
           importDir == r.imp
           newPackageSuffix == r.rel
           inPath == Join(<<importDir, newPackageSuffix, Base(proto)>>)
           outProtoDir == Join(<<OutputPath, newPackageSuffix>>)
           outProto == Join(<<outProtoDir, Base(proto)>>)
           newPackage == Join(<<GeneratedModulePath, newPackageSuffix>>)
       IN IF r.err # "nil"
          THEN FixFailed(r.err) /\ UNCHANGED <<files, fxTree>>
          ELSE IF StatKind(outProtoDir) \in {"file", "ENOTDIR"}
          THEN FixFailed("MkdirAll") /\ UNCHANGED <<files, fxTree>>
          ELSE IF StatKind(inPath) \notin {"file", "dir"}
          THEN FixFailed("opening input proto file for reading")
               /\ UNCHANGED <<files, fxTree>>
          ELSE IF StatKind(outProto) = "dir"
          THEN FixFailed("opening output proto file for writing")
               /\ UNCHANGED <<files, fxTree>>
          ELSE \E found \in FixContents :
                 LET content == IF Abs(outProto) = Abs(inPath) THEN <<>> ELSE found
                 IN \E rw \in {fixGoPackageProtoStream(content, PathString(newPackage))} :
                 LET written == [dest |-> Abs(outProto), src |-> Abs(inPath),
                                 root |-> importDir, rel |-> newPackageSuffix,
                                 pkg |-> PathString(newPackage), idx |-> fxIdx,
                                 warned |-> r.warned, content |-> rw.out]
                 IN /\ files' = files \cup {Abs(outProto).segs}
                    /\ fxTree' = {w \in fxTree : w.dest # written.dest} \cup {written}
                    /\ IF rw.err # "nil"
                       THEN FixFailed("failed to munge proto file")
                       ELSE /\ fxInProtos' = Append(fxInProtos, inPath)
                            /\ fxOutProtos' = Append(fxOutProtos, outProto)
                            /\ fxIdx' = fxIdx + 1
                            /\ IF fxIdx = Len(fxProtos)
                               THEN fxErr' = "nil" /\ fxPc' = "done"
                               ELSE UNCHANGED <<fxErr, fxPc>>
    /\ UNCHANGED <<fxProtos, importPaths, protoPath, result, resPc, orchVars, rewVars,
                   aliasVars, svcVars>>

FixInit ==
    /\ OrchIdle
    /\ SvcIdle
    /\ RewIdle
    /\ AliasInit
    /\ files \in FixFileSystems
    /\ importPaths \in FixImportLists
    /\ protoPath = EmptyPath
    /\ result = [err |-> "none"]
    /\ resPc = "idle"
    /\ fxProtos \in (SeqsUpTo(FixReferences, MaxProtos) \ {<<>>})
    /\ fxIdx = 1
    /\ fxTree = {}
    /\ fxInProtos = <<>>
    /\ fxOutProtos = <<>>
    /\ fxErr = "none"
    /\ fxPc = "loop"

FixNext == FixGoPackagesIter

FixSpec == FixInit /\ [][FixNext]_vars

\* ================================================================ claims: rewriter
Rewritten == rwPc = "done"
RewriteSucceeded == Rewritten /\ rwRes.err = "nil"

\* A line that holds the go_package option statement of the protocol language:
\* the keyword option, blanks, go_package, optional blanks, "=" (the statement
\* may be indented).
IsGoPackageDirective(l) ==
    LET j == SkipBlanks(l, 1)
    IN /\ j + 1 <= Len(l) /\ l[j] = "option" /\ IsBlank(l[j + 1])
       /\ LET k == SkipBlanks(l, j + 1)
          IN /\ k <= Len(l) /\ l[k] = "go_package"
             /\ LET m == SkipBlanks(l, k + 1)
                IN m <= Len(l) /\ l[m] = "="

\* A line that begins a syntax statement: its first word is the keyword syntax.
IsSyntaxLine(l) ==
    LET j == SkipBlanks(l, 1) IN j <= Len(l) /\ l[j] = "syntax"

IsOtherLine(l) == ~IsGoPackageDirective(l)

\* The lines of the input (a line ends with a newline or with carriage
\* return and newline) and the lines of the output (each ends with a newline).
InLines == ScanLines(rwIn, <<>>)

RECURSIVE SplitLines(_, _)
SplitLines(rest, cur) ==
    IF rest = <<>> THEN (IF cur = <<>> THEN <<>> ELSE <<cur>>)
    ELSE IF Head(rest) = NL THEN <<cur>> \o SplitLines(Tail(rest), <<>>)
    ELSE SplitLines(Tail(rest), Append(cur, Head(rest)))

OutLines == SplitLines(rwRes.out, <<>>)

\* C12: after a successful rewrite the output has exactly one go_package
\* directive line, it names the target namespace, and it is the line right
\* after the only syntax line of the output.
C12_OneDirectiveAfterSyntaxLine ==
    RewriteSucceeded =>
        LET dirs == { i \in 1..Len(OutLines) : IsGoPackageDirective(OutLines[i]) }
            syns == { i \in 1..Len(OutLines) : IsSyntaxLine(OutLines[i]) }
        IN /\ Cardinality(dirs) = 1
           /\ Cardinality(syns) = 1
           /\ \A i \in dirs : OutLines[i] = GoPackageLine(rwPkg) /\ (i - 1) \in syns

\* C13: the rewrite fails when the target namespace is empty; with a
\* non-empty namespace it succeeds exactly when the input has one syntax line.
C13_FailsUnlessOneSyntaxLine ==
    Rewritten =>
        LET syns == { i \in 1..Len(InLines) : IsSyntaxLine(InLines[i]) }
        IN /\ rwPkg = "" => rwRes.err # "nil"
           /\ rwPkg # "" => (rwRes.err = "nil" <=> Cardinality(syns) = 1)

\* The output lines without line i and the line after it.
WithoutPair(lines, i) ==
    SubSeq(lines, 1, i - 1) \o SubSeq(lines, i + 2, Len(lines))

\* C14: after a successful rewrite every output line ends with a newline, and
\* the output lines without the injected directive and the blank line after it
\* are the input lines without the go_package directive lines, in order.
C14_OtherLinesPassThrough ==
    RewriteSucceeded =>
        /\ rwRes.out # <<>> /\ rwRes.out[Len(rwRes.out)] = NL
        /\ \E i \in 1..(Len(OutLines) - 1) :
              /\ OutLines[i] = GoPackageLine(rwPkg)
              /\ OutLines[i + 1] = <<>>
              /\ WithoutPair(OutLines, i) = SelectSeq(InLines, IsOtherLine)

\* ================================================================ claims: fixGoPackages
\* The lines of a rewritten copy
CopyLines(w) == SplitLines(w.content, <<>>)

\* C15: every rewritten copy is at output/rel/b for the (root, rel) its input
\* was resolved to, its path relative to the output directory is the path of
\* the input relative to the matched root, and the namespace it is given is
\* GENERATED_MODULE_NAME/rel: the same for the same rel, whatever go_package
\* the input declared.
C15_CopyMirrorsRelativePath ==
    \A w \in fxTree :
        /\ w.dest = Abs(Join(<<OutputPath, w.rel, Base(fxProtos[w.idx])>>))
        /\ Rel(Abs(OutputPath), w.dest) = Rel(Abs(w.root), w.src)
        /\ w.pkg = PathString(Join(<<GeneratedModulePath, w.rel>>))
        /\ \A v \in fxTree : v.rel = w.rel => v.pkg = w.pkg
        /\ (fxErr \in {"none", "nil"})
              => \E i \in 1..Len(CopyLines(w)) : CopyLines(w)[i] = GoPackageLine(w.pkg)

\* C16: when the rewriting stage has succeeded, references resolved to
\* different input files were written to different destination paths.
C16_OneCopyPerInput ==
    (fxPc = "done" /\ fxErr = "nil") =>
        \A i, j \in 1..Len(fxProtos) :
            Abs(fxInProtos[i]) # Abs(fxInProtos[j])
                => Abs(fxOutProtos[i]) # Abs(fxOutProtos[j])

\* ================================================================ protoc-gen-gripmock: getGoPackage
MaxCalls == 4

\* A go_package option is a stream of tokens: words, "/", "-" and ";".
\* The options of the descriptors: "" (none), "a/foo", "b/foo", "c/foo1",
\* "a/foo;bar", "x/y;foo", "a/go", "b/Go", "c/my-pkg"
GoPackageOptions ==
    { <<>>, <<"a", "/", "foo">>, <<"b", "/", "foo">>, <<"c", "/", "foo1">>,
      <<"a", "/", "foo", ";", "bar">>, <<"x", "/", "y", ";", "foo">>,
      <<"a", "/", "go">>, <<"b", "/", "Go">>, <<"c", "/", "my", "-", "pkg">> }

\* The characters of a token stream
RECURSIVE Text(_)
Text(tokens) == IF tokens = <<>> THEN "" ELSE Head(tokens) \o Text(Tail(tokens))

\* strings.Split(s, sep)
RECURSIVE Split(_, _, _)
Split(rest, cur, sep) ==
    IF rest = <<>> THEN <<cur>>
    ELSE IF Head(rest) = sep THEN <<cur>> \o Split(Tail(rest), <<>>, sep)
    ELSE Split(Tail(rest), Append(cur, Head(rest)), sep)

\* strings.ReplaceAll(s, old, new) for a one-character old
ReplaceAll(tokens, old, new) ==
    [i \in 1..Len(tokens) |-> IF tokens[i] = old THEN new ELSE tokens[i]]

\* strings.ToLower, on the words the options are made of
ToLower(word) == IF word = "Go" THEN "go" ELSE word

Keywords ==
    { "break", "case", "chan", "const", "continue", "default", "defer", "else",
      "fallthrough", "for", "func", "go", "goto", "if", "import", "interface",
      "map", "package", "range", "return", "select", "struct", "switch", "type",
      "var" }

isKeyword(word) == ToLower(word) \in Keywords

\* The alias derived from the option, before the tables are consulted: the
\* part after the first ";", else the last folder with "-" replaced by "_".
DerivedAlias(opt) ==
    LET splits == Split(opt, <<>>, ";")
    IN IF Len(splits) > 1 THEN Text(splits[2])
       ELSE LET splitSlash == Split(opt, <<>>, "/")
            IN Text(ReplaceAll(splitSlash[Len(splitSlash)], "-", "_"))

\* The go package named by the option: the part before the first ";".
DerivedGoPackage(opt) ==
    LET splits == Split(opt, <<>>, ";")
    IN IF Len(splits) > 1 THEN Text(splits[1]) ELSE Text(opt)

getGoPackage_noLookup(st, opt) ==
    IF opt = <<>> THEN [alias |-> "", goPackage |-> "", st |-> st]
    ELSE LET goPackage == DerivedGoPackage(opt)
             derived == DerivedAlias(opt)
             escaped == IF isKeyword(derived) THEN derived \o "_pb" ELSE derived
             taken == escaped \in st.aliases
             alias == IF taken THEN escaped \o ToString(st.aliasNum) ELSE escaped
         IN [alias |-> alias, goPackage |-> goPackage,
             st |-> [aliases |-> st.aliases \cup {alias},
                     aliasNum |-> IF taken THEN st.aliasNum + 1 ELSE st.aliasNum,
                     packages |-> [q \in DOMAIN st.packages \cup {goPackage} |->
                                     IF q = goPackage THEN alias ELSE st.packages[q]]]]

getGoPackage_numberNotIncremented(st, opt) ==
    IF opt = <<>> THEN [alias |-> "", goPackage |-> "", st |-> st]
    ELSE LET goPackage == DerivedGoPackage(opt)
             derived == DerivedAlias(opt)
             escaped == IF isKeyword(derived) THEN derived \o "_pb" ELSE derived
             taken == escaped \in st.aliases
             alias == IF taken THEN escaped \o ToString(st.aliasNum) ELSE escaped
         IN IF goPackage \in DOMAIN st.packages
            THEN [alias |-> st.packages[goPackage], goPackage |-> goPackage, st |-> st]
            ELSE [alias |-> alias, goPackage |-> goPackage,
                  st |-> [aliases |-> st.aliases \cup {alias},
                          aliasNum |-> st.aliasNum,
                          packages |-> st.packages @@ (goPackage :> alias)]]

\* getGoPackage on the tables st = [aliases, aliasNum, packages]: the alias
\* and go package returned and the tables afterwards.
getGoPackage(st, opt) ==
    IF opt = <<>> THEN [alias |-> "", goPackage |-> "", st |-> st]
    ELSE LET goPackage == DerivedGoPackage(opt)
             derived == DerivedAlias(opt)
             escaped == IF isKeyword(derived) THEN derived \o "_pb" ELSE derived
             taken == escaped \in st.aliases
             alias == IF taken THEN escaped \o ToString(st.aliasNum) ELSE escaped
         IN IF goPackage \in DOMAIN st.packages
            THEN [alias |-> st.packages[goPackage], goPackage |-> goPackage, st |-> st]
            ELSE [alias |-> alias, goPackage |-> goPackage,
                  st |-> [aliases |-> st.aliases \cup {alias},
                          aliasNum |-> IF taken THEN st.aliasNum + 1 ELSE st.aliasNum,
                          packages |-> st.packages @@ (goPackage :> alias)]]

AliasTables == [aliases |-> aliases, aliasNum |-> aliasNum, packages |-> packages]

\* A call of getGoPackage for a descriptor, as made by resolveImports,
\* extractServices and getMessageType.
CallGetGoPackage ==
    /\ Len(pkgLog) < MaxCalls
    /\ \E opt \in GoPackageOptions :
         \E r \in {getGoPackage(AliasTables, opt)} :
            /\ aliases' = r.st.aliases
            /\ aliasNum' = r.st.aliasNum
            /\ packages' = r.st.packages
            /\ pkgLog' = Append(pkgLog, [opt |-> opt, alias |-> r.alias,
                                         goPackage |-> r.goPackage,
                                         known |-> r.goPackage \in DOMAIN packages,
                                         num |-> aliasNum])
    /\ UNCHANGED <<orchVars, resVars, rewVars, fixVars, svcVars>>

AliasSpecInit == OrchIdle /\ ResIdle /\ RewIdle /\ FixIdle /\ AliasInit /\ SvcIdle

AliasNext == CallGetGoPackage

AliasSpec == AliasSpecInit /\ [][AliasNext]_vars

\* ================================================================ claims: getGoPackage
\* C17: the aliases assigned to different go packages are pairwise different,
\* and no assigned alias is a reserved word.
C17_AliasesDistinctAndNotReserved ==
    /\ \A p, q \in DOMAIN packages : p # q => packages[p] # packages[q]
    /\ \A p \in DOMAIN packages : ~isKeyword(packages[p])

\* The tables and the results after the calls of the log are replayed, one
\* after the other, from the initial tables.
RECURSIVE Replay(_, _, _)
Replay(st, returned, opts) ==
    IF opts = <<>> THEN [st |-> st, returned |-> returned]
    ELSE LET r == getGoPackage(st, Head(opts))
         IN Replay(r.st, Append(returned, r.alias), Tail(opts))

InitialTables == [aliases |-> {}, aliasNum |-> 1, packages |-> [p \in {} |-> ""]]

Assignments == { i \in 1..Len(pkgLog) : pkgLog[i].opt # <<>> /\ ~pkgLog[i].known }

\* The alias an assignment starts from: the derived alias, with _pb when it
\* is a reserved word.
Escaped(i) ==
    LET d == DerivedAlias(pkgLog[i].opt)
    IN IF isKeyword(d) THEN d \o "_pb" ELSE d

Collisions == { i \in Assignments : pkgLog[i].alias # Escaped(i) }

\* C19: a reserved derived alias is assigned with the _pb suffix (and with the
\* number after it on a collision); the second of two packages deriving the
\* same alias gets it with the numeric suffix, the number being one more than
\* the number of collisions before it.
C19_ReservedAndDuplicateSuffixes ==
    \A i \in Assignments :
        LET d == DerivedAlias(pkgLog[i].opt)
            n == 1 + Cardinality({k \in Collisions : k < i})
        IN /\ isKeyword(d) => pkgLog[i].alias \in {d \o "_pb", d \o "_pb" \o ToString(n)}
           /\ (\E k \in Assignments : k < i /\ DerivedAlias(pkgLog[k].opt) = d)
                 => pkgLog[i].alias = Escaped(i) \o ToString(n)

\* A reserved alias and two collisions: go_pb, foo, foo1, foo2
C19_Witness ==
    /\ Len(pkgLog) = 4
    /\ \E i \in Assignments : pkgLog[i].alias = "go_pb"
    /\ \E i, j \in Collisions : pkgLog[i].alias = "foo1" /\ pkgLog[j].alias = "foo2"

\* ================================================================ protoc-gen-gripmock: extractServices
MaxMethods == 2

\* The element of a one-element set: The({e(x) : x \in {v}}) is e(v), with
\* v computed once.
The(S) == CHOOSE x \in S : TRUE

\* getGoPackage called with the tables and the log in ctx = [st, log]
LoggedCall(ctx, opt) ==
    The({ [alias |-> r.alias, goPackage |-> r.goPackage,
           ctx |-> [st |-> r.st,
                    log |-> Append(ctx.log, [opt |-> opt, alias |-> r.alias,
                                             goPackage |-> r.goPackage,
                                             known |-> r.goPackage \in DOMAIN ctx.st.packages,
                                             num |-> ctx.st.aliasNum])]] :
          r \in {getGoPackage(ctx.st, opt)} })

\* strings.Join(elems, ".")
RECURSIVE JoinDots(_)
JoinDots(elems) ==
    IF elems = <<>> THEN ""
    ELSE IF Len(elems) = 1 THEN Text(elems[1])
    ELSE Text(elems[1]) \o "." \o JoinDots(Tail(elems))

getMessageType_lastDeclaring(ctx, protos, tipe) ==
    LET split == Tail(Split(tipe, <<>>, "."))
        targetPackage == JoinDots(SubSeq(split, 1, Len(split) - 1))
        targetType == Text(split[Len(split)])
        declaring == { i \in 1..Len(protos) :
                         /\ protos[i].package = targetPackage
                         /\ \E k \in 1..Len(protos[i].messageType) :
                               protos[i].messageType[k] = targetType }
    IN IF declaring = {} THEN [text |-> targetType, ctx |-> ctx]
       ELSE LET last == CHOOSE i \in declaring : \A k \in declaring : i >= k
            IN The({ [text |-> IF c.alias # "" THEN c.alias \o "." \o targetType
                               ELSE targetType,
                      ctx |-> c.ctx] :
                     c \in {LoggedCall(ctx, protos[last].goPackage)} })

\* getMessageType: the type reference is a token stream such as
\* <<".", "simple", ".", "Request">>. The first descriptor of the target
\* package that declares the message gives the alias.
getMessageType(ctx, protos, tipe) ==
    LET split == Tail(Split(tipe, <<>>, "."))
        targetPackage == JoinDots(SubSeq(split, 1, Len(split) - 1))
        targetType == Text(split[Len(split)])
        declaring == { i \in 1..Len(protos) :
                         /\ protos[i].package = targetPackage
                         /\ \E k \in 1..Len(protos[i].messageType) :
                               protos[i].messageType[k] = targetType }
    IN IF declaring = {} THEN [text |-> targetType, ctx |-> ctx]
       ELSE LET first == CHOOSE i \in declaring : \A k \in declaring : i <= k
            IN The({ [text |-> IF c.alias # "" THEN c.alias \o "." \o targetType
                               ELSE targetType,
                      ctx |-> c.ctx] :
                     c \in {LoggedCall(ctx, protos[first].goPackage)} })

\* method.GetServerStreaming(), method.GetClientStreaming(): an unset field reads false
GetServerStreaming(method) == method.serverStreaming = "true"
GetClientStreaming(method) == method.clientStreaming = "true"

\* The if chain that sets tipe
MethodType_noBidirectional(method) ==
    IF GetServerStreaming(method) /\ ~GetClientStreaming(method) THEN "server-stream"
    ELSE IF GetClientStreaming(method) THEN "client-stream"
    ELSE "standard"

MethodType(method) ==
    IF GetServerStreaming(method) /\ ~GetClientStreaming(method) THEN "server-stream"
    ELSE IF ~GetServerStreaming(method) /\ GetClientStreaming(method) THEN "client-stream"
    ELSE IF GetServerStreaming(method) /\ GetClientStreaming(method) THEN "bidirectional"
    ELSE "standard"

\* strings.Title, on the method names of the descriptors
Title(name) == IF name = "sayHello" THEN "SayHello" ELSE name

\* The loop over svc.Method from method j on
RECURSIVE ExtractMethods(_, _, _, _, _, _)
ExtractMethods(ctx, protos, svc, svcPackage, j, methods) ==
    IF j > Len(svc.method) THEN [methods |-> methods, ctx |-> ctx]
    ELSE LET method == svc.method[j]
         IN The({ The({ ExtractMethods(outp.ctx, protos, svc, svcPackage, j + 1,
                            Append(methods, [Name |-> Title(method.name),
                                             SvcPackage |-> svcPackage,
                                             ServiceName |-> svc.name,
                                             Input |-> inp.text,
                                             Output |-> outp.text,
                                             MethodType |-> MethodType(method)])) :
                        outp \in {getMessageType(inp.ctx, protos, method.outputType)} }) :
                  inp \in {getMessageType(ctx, protos, method.inputType)} })

\* The loop over proto.GetService() from service k on
RECURSIVE ExtractFileServices(_, _, _, _, _)
ExtractFileServices(ctx, protos, proto, k, svcs) ==
    IF k > Len(proto.service) THEN [svcs |-> svcs, ctx |-> ctx]
    ELSE LET svc == proto.service[k]
         IN The({ The({ ExtractFileServices(ms.ctx, protos, proto, k + 1,
                            Append(svcs, [Name |-> svc.name,
                                          GrpcService |-> proto.package,
                                          Package |-> IF c.alias # "" THEN c.alias \o "."
                                                      ELSE "",
                                          Methods |-> ms.methods])) :
                        ms \in {ExtractMethods(c.ctx, protos, svc,
                                   IF c.alias # "" THEN c.alias \o "." ELSE "", 1, <<>>)} }) :
                  c \in {LoggedCall(ctx, proto.goPackage)} })

\* The loop over protos from descriptor i on
RECURSIVE extractServices(_, _, _, _)
extractServices(ctx, protos, i, svcTmp0) ==
    IF i > Len(protos) THEN [svcTmp |-> svcTmp0, ctx |-> ctx]
    ELSE The({ extractServices(fs.ctx, protos, i + 1, fs.svcs) :
               fs \in {ExtractFileServices(ctx, protos, protos[i], 1, svcTmp0)} })

\* ---------------------------------------------------------------- inputs
StreamingFlags == {"unset", "false", "true"}

\* The methods of the descriptors: every combination of the two streaming
\* fields, for sayHello(.simple.Request) and for Ping(.other.Request)
MethodDescriptors ==
    { [name |-> nt[1], inputType |-> nt[2],
       outputType |-> <<".", "simple", ".", "Reply">>,
       serverStreaming |-> ss, clientStreaming |-> cs] :
         nt \in { <<"sayHello", <<".", "simple", ".", "Request">> >>,
                  <<"Ping", <<".", "other", ".", "Request">> >> },
         ss \in StreamingFlags, cs \in StreamingFlags }

\* The request: simple.proto with the service Gripmock, and other.proto
\* with a message and no service.
Requests ==
    { << [name |-> "simple.proto", package |-> "simple", goPackage |-> gp,
          messageType |-> <<"Request", "Reply">>,
          service |-> << [name |-> "Gripmock", method |-> ms] >>],
         [name |-> "other.proto", package |-> "other", goPackage |-> ogp,
          messageType |-> <<"Request">>, service |-> <<>>] >> :
         gp \in { <<>>, <<"a", "/", "foo">>, <<"a", "/", "go">> },
         ogp \in { <<>>, <<"b", "/", "foo">> },
         ms \in (SeqsUpTo(MethodDescriptors, MaxMethods) \ {<<>>}) }

\* The call of extractServices made by generateServer.
CallExtractServices ==
    /\ svcPc = "call"
    /\ \E r \in {extractServices([st |-> AliasTables, log |-> pkgLog], svcProtos, 1, <<>>)} :
          /\ svcTmp' = r.svcTmp
          /\ aliases' = r.ctx.st.aliases
          /\ aliasNum' = r.ctx.st.aliasNum
          /\ packages' = r.ctx.st.packages
          /\ pkgLog' = r.ctx.log
    /\ svcPc' = "done"
    /\ UNCHANGED <<svcProtos, genVars, orchVars, resVars, rewVars, fixVars>>

SvcInit ==
    /\ OrchIdle /\ ResIdle /\ RewIdle /\ FixIdle /\ AliasInit /\ GenIdle
    /\ svcProtos \in Requests
    /\ svcTmp = <<>>
    /\ svcPc = "call"

SvcNext == CallExtractServices

SvcSpec == SvcInit /\ [][SvcNext]_vars

\* ================================================================ claims: extractServices
\* The class the two streaming flags give, by the table of the specification.
Classification(client, server) ==
    IF ~client /\ ~server THEN "standard"
    ELSE IF ~client /\ server THEN "server-stream"
    ELSE IF client /\ ~server THEN "client-stream"
    ELSE "bidirectional"

\* C20: every method of every extracted service has the class its two
\* streaming flags give, whatever its name, its types and the go package of
\* its file are.
C20_MethodClassFromStreamingFlags ==
    svcPc = "done" =>
        /\ Len(svcTmp) = 1
        /\ Len(svcTmp[1].Methods) = Len(svcProtos[1].service[1].method)
        /\ \A j \in 1..Len(svcTmp[1].Methods) :
              LET method == svcProtos[1].service[1].method[j]
              IN svcTmp[1].Methods[j].MethodType =
                    Classification(method.clientStreaming = "true",
                                   method.serverStreaming = "true")

\* A bidirectional Ping next to a unary sayHello
C20_Witness ==
    /\ svcPc = "done"
    /\ Len(svcTmp[1].Methods) = 2
    /\ svcTmp[1].Methods[1].MethodType = "bidirectional"
    /\ svcTmp[1].Methods[1].Name = "Ping"
    /\ svcTmp[1].Methods[2].MethodType = "standard"
    /\ svcTmp[1].Methods[2].Input = "foo.Request"

\* ================================================================ protoc-gen-gripmock: getMessageType
\* The descriptors of the request: two files of package simple that both
\* declare Reply, and one file of package a.b.
MessageRequests ==
    { << [name |-> "reply.proto", package |-> "simple", goPackage |-> gp1,
          messageType |-> <<"Reply">>, service |-> <<>>],
         [name |-> "simple.proto", package |-> "simple", goPackage |-> gp2,
          messageType |-> <<"Request", "Reply">>, service |-> <<>>],
         [name |-> "ab.proto", package |-> "a.b", goPackage |-> gp3,
          messageType |-> <<"Request">>, service |-> <<>>] >> :
         gp1 \in { <<>>, <<"a", "/", "foo">>, <<"a", "/", "go">> },
         gp2 \in { <<>>, <<"a", "/", "foo">>, <<"b", "/", "foo">> },
         gp3 \in { <<>>, <<"b", "/", "foo">> } }

\* .simple.Reply, .simple.Request, .a.b.Request, .simple.Missing,
\* .nosuch.Request, .simple.Request.Inner
TypeReferences ==
    { <<".", "simple", ".", "Reply">>, <<".", "simple", ".", "Request">>,
      <<".", "a", ".", "b", ".", "Request">>, <<".", "simple", ".", "Missing">>,
      <<".", "nosuch", ".", "Request">>, <<".", "simple", ".", "Request", ".", "Inner">> }

\* A call of getMessageType, as made by extractServices for a method's
\* input or output type.
CallGetMessageType ==
    /\ msgCount < MaxCalls
    /\ \E tipe \in TypeReferences :
         \E r \in {getMessageType([st |-> AliasTables, log |-> pkgLog], svcProtos, tipe)} :
            /\ msgTipe' = tipe
            /\ msgRes' = r.text
            /\ aliases' = r.ctx.st.aliases
            /\ aliasNum' = r.ctx.st.aliasNum
            /\ packages' = r.ctx.st.packages
            /\ pkgLog' = r.ctx.log
    /\ msgCount' = msgCount + 1
    /\ UNCHANGED <<svcProtos, svcTmp, svcPc, paramVars, tplVars,
                   orchVars, resVars, rewVars, fixVars>>

MessageInit ==
    /\ OrchIdle /\ ResIdle /\ RewIdle /\ FixIdle /\ AliasInit /\ GenIdle
    /\ svcProtos \in MessageRequests
    /\ svcTmp = <<>>
    /\ svcPc = "idle"

MessageNext == CallGetMessageType

MessageSpec == MessageInit /\ [][MessageNext]_vars

\* ================================================================ claims: getMessageType
\* The package P and the message name T of a reference .P.T: T is the part
\* after the last dot.
RefParts(tipe) == Tail(Split(tipe, <<>>, "."))
RefPackage(tipe) == JoinDots(SubSeq(RefParts(tipe), 1, Len(RefParts(tipe)) - 1))
RefMessage(tipe) == Text(RefParts(tipe)[Len(RefParts(tipe))])

Declares(proto, tipe) ==
    /\ proto.package = RefPackage(tipe)
    /\ \E k \in 1..Len(proto.messageType) : proto.messageType[k] = RefMessage(tipe)

\* C21: the result for .P.T is T qualified with the alias of the first
\* descriptor of package P that declares T, bare T when that descriptor has
\* no go package, and bare T when no descriptor of package P declares T.
C21_TypeQualifiedByFirstDeclaringFile ==
    msgCount > 0 =>
        LET declaring == { i \in 1..Len(svcProtos) : Declares(svcProtos[i], msgTipe) }
        IN IF declaring = {} THEN msgRes = RefMessage(msgTipe)
           ELSE LET first == CHOOSE i \in declaring : \A k \in declaring : i <= k
                    opt == svcProtos[first].goPackage
                IN IF opt = <<>> THEN msgRes = RefMessage(msgTipe)
                   ELSE /\ DerivedGoPackage(opt) \in DOMAIN packages
                        /\ msgRes = packages[DerivedGoPackage(opt)] \o "."
                                        \o RefMessage(msgTipe)

\* .simple.Reply, declared by two files with different aliases, after the
\* second file's alias was assigned: the first file's alias qualifies it.
C21_Witness ==
    /\ msgCount = 2
    /\ msgTipe = <<".", "simple", ".", "Reply">>
    /\ msgRes = "go_pb.Reply"
    /\ "b/foo" \in DOMAIN packages

\* ================================================================ protoc-gen-gripmock: readTemplate, generateFile
\* What a template file holds: "good" parses, executes and renders Go source
\* that imports.Process accepts; "noparse" fails template.Parse; "noexec"
\* fails template.Execute; "notgo" renders text imports.Process rejects.
TemplateKinds == {"good", "noparse", "noexec", "notgo"}

TemplateNames == {"server.tmpl", "go_mod.tmpl", "other.tmpl"}

\* The templates embedded with go:embed. go_mod.tmpl is a go.mod file, not
\* Go source.
defaultServerTemplate == [id |-> "server_template/server.tmpl", holds |-> "good"]
defaultServerGoMod == [id |-> "server_template/go_mod.tmpl", holds |-> "notgo"]

\* os.ReadFile(path.Join(templateDir, filename))
readTemplateFile(dir, dirFiles, filename) ==
    IF dirFiles[filename] = "ENOENT"
    THEN [err |-> [kind |-> "reading template", text |-> <<dir \o "/" \o filename>>],
          tmpl |-> <<>>]
    ELSE [err |-> NoError,
          tmpl |-> <<[id |-> dir \o "/" \o filename, holds |-> dirFiles[filename]]>>]

readTemplate_builtinFallback(dir, dirFiles, filename) ==
    IF dir = "" \/ dirFiles[filename] = "ENOENT" THEN
        IF filename = "server.tmpl" THEN [err |-> NoError, tmpl |-> <<defaultServerTemplate>>]
        ELSE IF filename = "go_mod.tmpl" THEN [err |-> NoError, tmpl |-> <<defaultServerGoMod>>]
        ELSE [err |-> [kind |-> "No template file named", text |-> <<filename>>],
              tmpl |-> <<>>]
    ELSE readTemplateFile(dir, dirFiles, filename)

\* readTemplate: [err, tmpl], tmpl the one-element sequence of the template read
readTemplate(dir, dirFiles, filename) ==
    IF dir = "" THEN
        IF filename = "server.tmpl" THEN [err |-> NoError, tmpl |-> <<defaultServerTemplate>>]
        ELSE IF filename = "go_mod.tmpl" THEN [err |-> NoError, tmpl |-> <<defaultServerGoMod>>]
        ELSE [err |-> [kind |-> "No template file named", text |-> <<filename>>],
              tmpl |-> <<>>]
    ELSE readTemplateFile(dir, dirFiles, filename)

\* fileWriter.AddGeneratedFile: the file is appended to the plugin's response
AddGeneratedFile(fw, filename, content) ==
    Append(fw, [filename |-> filename, content |-> content])

generateFile_alwaysFormats(fw, dir, dirFiles, templateParams, templateFileName, outFileName, formatGo) ==
    The({ IF t.err # NoError THEN [err |-> t.err, fw |-> fw]
          ELSE IF t.tmpl[1].holds = "noparse"
          THEN [err |-> [kind |-> "template parse", text |-> <<>>], fw |-> fw]
          ELSE IF t.tmpl[1].holds = "noexec"
          THEN [err |-> [kind |-> "template execute", text |-> <<>>], fw |-> fw]
          ELSE LET byt == [tmpl |-> t.tmpl[1], params |-> templateParams,
                           formatted |-> FALSE]
               IN IF t.tmpl[1].holds = "notgo"
                  THEN [err |-> [kind |-> "formatting imports", text |-> <<byt>>],
                        fw |-> fw]
                  ELSE [err |-> NoError,
                        fw |-> AddGeneratedFile(fw, outFileName,
                                                [byt EXCEPT !.formatted = TRUE])] :
          t \in {readTemplate(dir, dirFiles, templateFileName)} })

\* generateFile: the error returned and the FileWriter afterwards. byt is the
\* rendered buffer: the template, the parameters it was executed with, and
\* whether imports.Process has rewritten it.
generateFile(fw, dir, dirFiles, templateParams, templateFileName, outFileName, formatGo) ==
    The({ IF t.err # NoError THEN [err |-> t.err, fw |-> fw]
          ELSE IF t.tmpl[1].holds = "noparse"
          THEN [err |-> [kind |-> "template parse", text |-> <<>>], fw |-> fw]
          ELSE IF t.tmpl[1].holds = "noexec"
          THEN [err |-> [kind |-> "template execute", text |-> <<>>], fw |-> fw]
          ELSE LET byt == [tmpl |-> t.tmpl[1], params |-> templateParams,
                           formatted |-> FALSE]
               IN IF formatGo /\ t.tmpl[1].holds = "notgo"
                  THEN [err |-> [kind |-> "formatting imports", text |-> <<byt>>],
                        fw |-> fw]
                  ELSE [err |-> NoError,
                        fw |-> AddGeneratedFile(fw, outFileName,
                                                [byt EXCEPT !.formatted = formatGo])] :
          t \in {readTemplate(dir, dirFiles, templateFileName)} })

\* ================================================================ protoc-gen-gripmock: resolveImports, generateServer
resolveImports_derivedAlias(ctx, protos, i, deps) ==
    [fatal |-> \E k \in 1..Len(protos) : protos[k].goPackage = <<>>,
     deps |-> [pkg \in { DerivedGoPackage(protos[k].goPackage) : k \in 1..Len(protos) } |->
                 LET k == CHOOSE k \in 1..Len(protos) :
                                DerivedGoPackage(protos[k].goPackage) = pkg
                 IN DerivedAlias(protos[k].goPackage)],
     ctx |-> ctx]

\* resolveImports, the loop over protos from descriptor i on: deps is the
\* map go package -> alias; fatal when a descriptor has no go_package
\* (log.Fatalf).
RECURSIVE resolveImports(_, _, _, _)
resolveImports(ctx, protos, i, deps) ==
    IF i > Len(protos) THEN [fatal |-> FALSE, deps |-> deps, ctx |-> ctx]
    ELSE The({ IF c.goPackage = "" THEN [fatal |-> TRUE, deps |-> deps, ctx |-> c.ctx]
               ELSE IF c.goPackage \in DOMAIN deps
               THEN resolveImports(c.ctx, protos, i + 1, deps)
               ELSE resolveImports(c.ctx, protos, i + 1, deps @@ (c.goPackage :> c.alias)) :
               c \in {LoggedCall(ctx, protos[i].goPackage)} })

\* The Options main builds: the template directory is unset or /tmpl
GenerateOptions ==
    [adminPort : {"4771"}, grpcAddr : {":4770"}, templateDir : {"", "/tmpl"}]

\* The template directory: each template file is absent or holds a template
TemplateDirs ==
    { f \in [TemplateNames -> TemplateKinds \cup {"ENOENT"}] :
        f["other.tmpl"] \in {"ENOENT", "good"} }

\* The descriptors of the request: types.proto declares a message used by
\* the services of simple.proto and extra.proto.
GenRequests ==
    { << [name |-> "types.proto", package |-> "other", goPackage |-> gp1,
          messageType |-> <<"Request">>, service |-> <<>>],
         [name |-> "simple.proto", package |-> "simple", goPackage |-> gp2,
          messageType |-> <<"Request", "Reply">>,
          service |-> << [name |-> "Gripmock", method |-> <<
              [name |-> "sayHello", inputType |-> <<".", "other", ".", "Request">>,
               outputType |-> <<".", "simple", ".", "Reply">>,
               serverStreaming |-> "unset", clientStreaming |-> "unset"] >>] >>],
         [name |-> "extra.proto", package |-> "extra", goPackage |-> gp3,
          messageType |-> <<>>,
          service |-> << [name |-> "Extra", method |-> <<
              [name |-> "Ping", inputType |-> <<".", "simple", ".", "Request">>,
               outputType |-> <<".", "other", ".", "Request">>,
               serverStreaming |-> "true", clientStreaming |-> "unset"] >>] >>] >> :
         gp1 \in { <<>>, <<"b", "/", "foo">>, <<"a", "/", "go">>,
                   <<"a", "/", "foo", ";", "bar">> },
         gp2 \in { <<>>, <<"a", "/", "foo">>, <<"c", "/", "foo1">> },
         gp3 \in { <<"a", "/", "foo">>, <<"b", "/", "foo">>, <<"x", "/", "y", ";", "foo">> } }

\* A call of readTemplate
CallReadTemplate ==
    /\ tplName = ""
    /\ \E filename \in TemplateNames :
          /\ tplName' = filename
          /\ tplRes' = readTemplate(generateOptions.templateDir, tplFiles, filename)
    /\ UNCHANGED <<generateOptions, tplFiles, genParams, genFiles, genErr, genPc>>
    /\ UNCHANGED <<svcProtos, svcTmp, svcPc, msgVars, paramVars>>
    /\ UNCHANGED <<orchVars, resVars, rewVars, fixVars, aliasVars>>

\* generateServer: extractServices, resolveImports, then server.go and
\* go.mod through generateFile. log.Fatalf in resolveImports ends the plugin.
generateServer ==
    /\ genPc = "call"
    /\ \E sv \in {extractServices([st |-> AliasTables, log |-> pkgLog], svcProtos, 1, <<>>)} :
       \E im \in {resolveImports(sv.ctx, svcProtos, 1, <<>>)} :
          /\ aliases' = im.ctx.st.aliases
          /\ aliasNum' = im.ctx.st.aliasNum
          /\ packages' = im.ctx.st.packages
          /\ pkgLog' = im.ctx.log
          /\ svcTmp' = sv.svcTmp
          /\ IF im.fatal
             THEN /\ genPc' = "fatal"
                  /\ UNCHANGED <<genParams, genFiles, genErr>>
             ELSE \E templateParams \in {[Services |-> sv.svcTmp, Imports |-> im.deps,
                                          GrpcAddr |-> generateOptions.grpcAddr,
                                          AdminPort |-> generateOptions.adminPort]} :
                  \E server \in {generateFile(genFiles, generateOptions.templateDir, tplFiles,
                                    templateParams, "server.tmpl", "server.go", TRUE)} :
                  \E gomod \in {IF server.err # NoError THEN server
                                ELSE generateFile(server.fw, generateOptions.templateDir,
                                        tplFiles, templateParams, "go_mod.tmpl", "go.mod",
                                        FALSE)} :
                     /\ genParams' = <<templateParams>>
                     /\ genFiles' = gomod.fw
                     /\ genErr' = gomod.err
                     /\ genPc' = "done"
    /\ UNCHANGED <<generateOptions, tplFiles, tplName, tplRes>>
    /\ UNCHANGED <<svcProtos, svcPc, msgVars, paramVars>>
    /\ UNCHANGED <<orchVars, resVars, rewVars, fixVars>>

GenInit ==
    /\ OrchIdle /\ ResIdle /\ RewIdle /\ FixIdle /\ AliasInit /\ MsgIdle /\ ParamIdle
    /\ svcProtos \in GenRequests
    /\ svcTmp = <<>>
    /\ svcPc = "idle"
    /\ generateOptions \in GenerateOptions
    /\ tplFiles \in TemplateDirs
    /\ tplName = ""
    /\ tplRes = <<>>
    /\ genParams = <<>>
    /\ genFiles = <<>>
    /\ genErr = NoError
    /\ genPc = "call"

GenNext == CallReadTemplate \/ generateServer

GenSpec == GenInit /\ [][GenNext]_vars

\* ================================================================ claims: readTemplate, generateServer
BuiltinTemplates == {defaultServerTemplate, defaultServerGoMod}

\* The templates the files handed to the FileWriter were rendered from
RenderedFrom == { genFiles[i].content.tmpl : i \in 1..Len(genFiles) }

\* C22: with a template directory configured every template comes from that
\* directory, never from the built-in ones, and a missing file is an error;
\* with none configured server.tmpl and go_mod.tmpl are the built-in
\* templates and any other name fails as an unknown template.
C22_TemplateSourceSelection ==
    /\ tplName # "" =>
          IF generateOptions.templateDir # ""
          THEN IF tplFiles[tplName] = "ENOENT"
               THEN tplRes.err.kind = "reading template" /\ tplRes.tmpl = <<>>
               ELSE /\ tplRes.err = NoError
                    /\ tplRes.tmpl = <<[id |-> generateOptions.templateDir \o "/" \o tplName,
                                        holds |-> tplFiles[tplName]]>>
                    /\ tplRes.tmpl[1] \notin BuiltinTemplates
          ELSE IF tplName = "server.tmpl"
               THEN tplRes.err = NoError /\ tplRes.tmpl = <<defaultServerTemplate>>
               ELSE IF tplName = "go_mod.tmpl"
               THEN tplRes.err = NoError /\ tplRes.tmpl = <<defaultServerGoMod>>
               ELSE tplRes.err.kind = "No template file named" /\ tplRes.tmpl = <<>>
    /\ genPc = "done" =>
          IF generateOptions.templateDir # ""
          THEN RenderedFrom \cap BuiltinTemplates = {}
          ELSE RenderedFrom \subseteq BuiltinTemplates

\* server.tmpl asked for with a directory configured that does not hold it
C22_Witness ==
    /\ tplName = "server.tmpl"
    /\ generateOptions.templateDir = "/tmpl"
    /\ tplFiles["server.tmpl"] = "ENOENT"
    /\ tplRes.err.kind = "reading template"

\* What the template generateFile is to use for a name holds
Holds(name) ==
    IF generateOptions.templateDir # "" THEN tplFiles[name]
    ELSE IF name = "server.tmpl" THEN defaultServerTemplate.holds
    ELSE defaultServerGoMod.holds

\* server.go needs a template that parses, executes and renders Go source;
\* go.mod one that parses and executes.
ServerFails == Holds("server.tmpl") \in {"ENOENT", "noparse", "noexec", "notgo"}
GoModFails == Holds("go_mod.tmpl") \in {"ENOENT", "noparse", "noexec"}

FileNames == [i \in 1..Len(genFiles) |-> genFiles[i].filename]

\* C23: a successful generateServer hands server.go and then go.mod to the
\* FileWriter, each once, server.go formatted and go.mod not; an artifact
\* whose rendering or formatting fails is not handed over, and a formatting
\* error carries the unformatted buffer.
C23_TwoArtifactsServerFormatted ==
    genPc = "done" =>
        /\ genErr = NoError <=> (~ServerFails /\ ~GoModFails)
        /\ genErr = NoError =>
              /\ FileNames = <<"server.go", "go.mod">>
              /\ genFiles[1].content.formatted
              /\ ~genFiles[2].content.formatted
        /\ ServerFails => genFiles = <<>>
        /\ (~ServerFails /\ GoModFails) =>
              /\ FileNames = <<"server.go">>
              /\ genFiles[1].content.formatted
        /\ genErr.kind = "formatting imports" =>
              /\ genFiles = <<>>
              /\ Len(genErr.text) = 1
              /\ genErr.text[1].formatted = FALSE
              /\ genErr.text[1].params = genParams[1]
              /\ genErr.text[1].tmpl.holds = "notgo"

\* Both files emitted from a template directory whose go_mod.tmpl is not Go
C23_Witness ==
    /\ genPc = "done"
    /\ genErr = NoError
    /\ generateOptions.templateDir = "/tmpl"
    /\ tplFiles["go_mod.tmpl"] = "notgo"
    /\ Len(genFiles) = 2

\* ================================================================ protoc-gen-gripmock: main, the plugin parameter
MaxParams == 2

\* The items of the parameter string, as token streams: the options
\* generateProtoc passes, with values that are empty, plain, or hold "=",
\* and an item without "=".
ParameterItems ==
    { <<k, "=">> \o v :
        k \in {"admin-port", "grpc-address", "grpc-port", "template-dir"},
        v \in { <<>>, <<"4771">>, <<"/t">>, <<"/t", "=", "1">> } }
    \cup { <<"debug">> }

\* strings.Join(items, ",")
RECURSIVE JoinCommas(_)
JoinCommas(items) ==
    IF items = <<>> THEN <<>>
    ELSE IF Len(items) = 1 THEN items[1]
    ELSE items[1] \o <<",">> \o JoinCommas(Tail(items))

Parameters == { JoinCommas(items) : items \in SeqsUpTo(ParameterItems, MaxParams) }

\* params[key], "" for a key the map does not hold
MapGet(m, key) == IF key \in DOMAIN m THEN m[key] ELSE ""

\* The loop over strings.Split(request.GetParameter(), ",") from item i on:
\* params[split[0]] = split[1], a panic when split has one element only.
RECURSIVE parseParameters(_, _, _)
parseParameters(items, i, m) ==
    IF i > Len(items) THEN [panic |-> FALSE, params |-> m]
    ELSE The({ IF Len(split) < 2 THEN [panic |-> TRUE, params |-> m]
               ELSE parseParameters(items, i + 1,
                        [k \in DOMAIN m \cup {Text(split[1])} |->
                            IF k = Text(split[1]) THEN Text(split[2]) ELSE m[k]]) :
               split \in {Split(items[i], <<>>, "=")} })

\* main: the parameter map and the Options built from it
ParseParameters ==
    /\ paramPc = "parse"
    /\ \E r \in {parseParameters(Split(parameter, <<>>, ","), 1, <<>>)} :
          /\ params' = r.params
          /\ IF r.panic
             THEN /\ paramPc' = "panic"
                  /\ UNCHANGED generateOptions
             ELSE /\ paramPc' = "done"
                  /\ generateOptions' =
                        [adminPort |-> MapGet(r.params, "admin-port"),
                         grpcAddr |-> MapGet(r.params, "grpc-address") \o ":"
                                         \o MapGet(r.params, "grpc-port"),
                         templateDir |-> MapGet(r.params, "template-dir")]
    /\ UNCHANGED <<parameter, tplFiles, tplName, tplRes, genParams, genFiles, genErr, genPc>>
    /\ UNCHANGED <<svcProtos, svcTmp, svcPc, msgVars>>
    /\ UNCHANGED <<orchVars, resVars, rewVars, fixVars, aliasVars>>

ParamInit ==
    /\ OrchIdle /\ ResIdle /\ RewIdle /\ FixIdle /\ AliasInit /\ MsgIdle /\ TplIdle
    /\ svcProtos = <<>>
    /\ svcTmp = <<>>
    /\ svcPc = "idle"
    /\ parameter \in Parameters
    /\ params = <<>>
    /\ paramPc = "parse"

ParamNext == ParseParameters

ParamSpec == ParamInit /\ [][ParamNext]_vars

\* ================================================================ claims: the plugin parameter
\* The text before and after the first "=" of an item
RECURSIVE BeforeFirst(_, _)
BeforeFirst(item, sep) ==
    IF item = <<>> \/ Head(item) = sep THEN <<>>
    ELSE <<Head(item)>> \o BeforeFirst(Tail(item), sep)

AfterFirst(item, sep) == SubSeq(item, Len(BeforeFirst(item, sep)) + 2, Len(item))

ParamItems == Split(parameter, <<>>, ",")

\* C24: the value stored for key k is the whole text after the first "=" of
\* the last item k=v of the parameter string, also when v holds "=".
C24_ValueIsTextAfterFirstEquals ==
    paramPc = "done" =>
        \A i \in 1..Len(ParamItems) :
            LET k == Text(BeforeFirst(ParamItems[i], "="))
            IN (\A j \in (i + 1)..Len(ParamItems) :
                    Text(BeforeFirst(ParamItems[j], "=")) # k)
               => /\ k \in DOMAIN params
                  /\ params[k] = Text(AfterFirst(ParamItems[i], "="))

\* ================================================================ claims: the exit notification channel
\* main is in the for/select loop of the control loop
InControlLoop == mainPc \in {"select", "kill"}

\* C25: the waiter sends on runerrchan at most once and the control loop
\* receives at most once, the value the waiter sent and only while the waiter
\* stands at its send; and a send the waiter has reached while main is in
\* the control loop is received.
C25_ExitNotificationSingleUse ==
    /\ [](/\ runerrRecv <= 1
          /\ (runerrRecv = 1) <=> (waiterPc = "done")
          /\ waiterPc = "done" => lastErr = waitErr
          /\ waiterPc # "none" => (InControlLoop \/ mainPc = "exited"))
    /\ [][/\ runerrRecv' # runerrRecv =>
                (mainPc = "select" /\ waiterPc = "send" /\ waiterPc' = "done")
          /\ waiterPc' # waiterPc =>
                (<<waiterPc, waiterPc'>> \in {<<"none", "wait">>, <<"wait", "send">>,
                                             <<"send", "done">>})]_vars
    /\ ((waiterPc = "send" /\ InControlLoop) ~> (waiterPc = "done"))

\* The nil result of a child that exited with status 0 was received and the
\* loop went round again
C25_Witness ==
    /\ waiterPc = "done"
    /\ runerrRecv = 1
    /\ lastErr = "nil"
    /\ mainPc = "select"

\* ================================================================ claims: relative references
\* C26: for a relative reference the entry returned is the first one under
\* which the reference is a regular file; entries under which it is a
\* directory, or cannot be stat'ed, are passed over.
C26_RelativeMatchesRegularFilesOnly ==
    (Returned /\ protoPath # EmptyPath /\ ~IsAbs(protoPath) /\ PresentAt # {})
        => result = Success(Clean(importPaths[FirstPresentAt]), Dir(Clean(protoPath)), FALSE)

\* ================================================================ claims: shutdown by signal
\* The child died of the SIGKILL the orchestrator sent on a signal
ChildWasKilled == childState = "exited" /\ childStatus = KilledStatus

\* C27: when the orchestrator, on a termination signal, kills the running
\* child, Wait's result is an ExitError that is not a success, and the
\* orchestrator exits with EXITCODE_RUNTIME_ERROR, never with 0.
C27_SignalShutdownIsRuntimeError ==
    /\ []((ChildWasKilled /\ waiterPc \in {"send", "done"}) =>
             (waitErr = "ExitError" /\ ~ExitSuccess(childStatus)))
    /\ []((ChildWasKilled /\ mainPc = "exited") =>
             (/\ exitKind = "exit"
              /\ exitCode = EXITCODE_RUNTIME_ERROR
              /\ exitCode # EXITCODE_OK
              /\ lastErr = "ExitError"
              /\ sigReceived > 0))
    /\ (ChildWasKilled ~> (mainPc = "exited" /\ exitCode = EXITCODE_RUNTIME_ERROR))

\* The orchestrator has exited after the child it killed
C27_Witness ==
    /\ ChildWasKilled
    /\ killCount > 0
    /\ mainPc = "exited"
    /\ exitCode = EXITCODE_RUNTIME_ERROR

\* ================================================================ claims: inputs are not written
\* C28: the file fixGoPackage creates or truncates for an input is never the
\* resolved input file itself, whatever the search path is.
C28_DestinationIsNotTheSource ==
    \A w \in fxTree : w.dest # w.src

\* ================================================================ claims: aliases in generateServer
\* The go package of descriptor k and the alias the Imports table gives it
GoPackageOf(k) == DerivedGoPackage(svcProtos[k].goPackage)
ImportAlias(k) == genParams[1].Imports[GoPackageOf(k)]

\* The first descriptor that declares the message a reference names
FirstDeclaring(tipe) ==
    CHOOSE k \in 1..Len(svcProtos) :
        /\ Declares(svcProtos[k], tipe)
        /\ \A n \in 1..(k - 1) : ~Declares(svcProtos[n], tipe)

QualifiedByImports(tipe) == ImportAlias(FirstDeclaring(tipe)) \o "." \o RefMessage(tipe)

\* C29: the Imports table has one entry for each go package of the request,
\* and every service and every method input and output type is qualified
\* with the alias the table holds for the go package of the descriptor that
\* declares it.
C29_AliasesAgreeWithImports ==
    genPc = "done" =>
        /\ DOMAIN genParams[1].Imports = { GoPackageOf(k) : k \in 1..Len(svcProtos) }
        /\ genParams[1].Services = svcTmp
        /\ Len(svcTmp) = 2
        /\ \A k \in 1..Len(svcProtos) : \A n \in 1..Len(svcProtos[k].service) :
              \E i \in 1..Len(svcTmp) :
                 /\ svcTmp[i].Name = svcProtos[k].service[n].name
                 /\ svcTmp[i].Package = ImportAlias(k) \o "."
                 /\ Len(svcTmp[i].Methods) = Len(svcProtos[k].service[n].method)
                 /\ \A j \in 1..Len(svcTmp[i].Methods) :
                       /\ svcTmp[i].Methods[j].SvcPackage = ImportAlias(k) \o "."
                       /\ svcTmp[i].Methods[j].Input =
                             QualifiedByImports(svcProtos[k].service[n].method[j].inputType)
                       /\ svcTmp[i].Methods[j].Output =
                             QualifiedByImports(svcProtos[k].service[n].method[j].outputType)

\* simple.proto (a/foo) is met first by extractServices, types.proto (b/foo)
\* first by getMessageType, extra.proto (x/y;foo) last: foo, foo1, foo2
C29_Witness ==
    /\ genPc = "done"
    /\ genParams[1].Imports = ("a/foo" :> "foo" @@ "b/foo" :> "foo1" @@ "x/y" :> "foo2")
    /\ svcTmp[1].Methods[1].Input = "foo1.Request"
    /\ svcTmp[2].Package = "foo2."

\* ================================================================ main: the default of -imports
\* main: strings.Split(*imports, ",") with -imports unset (""): one empty entry
DefaultImports ==
    [i \in 1..Len(Split(<<>>, <<>>, ",")) |-> P(FALSE, Split(<<>>, <<>>, ",")[i])]

\* ================================================================ claims: the default search path
\* C30: with -imports unset the search path is the one entry "", cleaned to
\* "."; every relative reference that resolves is matched by that entry, with
\* the directory part of the reference as relative subpath and no warning,
\* and its copy is at output/dir/base; d/f, a regular file under the working
\* directory, resolves so.
C30_DefaultSearchPathIsWorkingDirectory ==
    importPaths = DefaultImports =>
        /\ importPaths = <<EmptyPath>>
        /\ \A w \in fxTree :
              ~IsAbs(fxProtos[w.idx]) =>
                 /\ w.root = DotPath
                 /\ w.rel = Dir(Clean(fxProtos[w.idx]))
                 /\ ~w.warned
                 /\ w.dest = Abs(Join(<<OutputPath, Dir(Clean(fxProtos[w.idx])),
                                        Base(fxProtos[w.idx])>>))
        /\ (/\ fxIdx > 1
            /\ fxProtos[1] = P(FALSE, <<"d", "f">>)
            /\ StatKind(P(FALSE, <<"d", "f">>)) = "file")
              => \E w \in fxTree :
                    /\ fxProtos[w.idx] = P(FALSE, <<"d", "f">>)
                    /\ w.src = P(TRUE, <<"w", "d", "f">>)
                    /\ w.root = DotPath
                    /\ w.rel = P(FALSE, <<"d">>)
                    /\ w.dest = P(TRUE, <<"w", DefaultOutput, "d", "f">>)

\* d/f copied to generated/d/f under the default search path
C30_Witness ==
    /\ importPaths = DefaultImports
    /\ fxPc = "done"
    /\ fxErr = "nil"
    /\ fxProtos = <<P(FALSE, <<"d", "f">>)>>
    /\ \E w \in fxTree : w.dest = P(TRUE, <<"w", DefaultOutput, "d", "f">>) /\ ~w.warned

====
